---- MODULE Spec2Model ----
(***************************************************************************)
(* Booster-pack core of the MTG utilities (shared mtg module): the range   *)
(* matcher, the exclusivity classifier, the seeded generator, the sealed   *)
(* pool generator with its two read-through caches, and fetchWithRetry     *)
(* with the paginating acquisition pipeline.                               *)
(*                                                                         *)
(* 32-bit words are pairs <<hi, lo>> of 16-bit halves, so that every       *)
(* intermediate value of the 32-bit arithmetic stays a small integer.      *)
(* JavaScript strings are sequences of one-character strings.              *)
(***************************************************************************)
EXTENDS Integers, Sequences, FiniteSets, TLC

(***************************************************************************)
(* 32-bit integer arithmetic (|0, >>>, ^, |, Math.imul)                    *)
(***************************************************************************)

RECURSIVE BitXor(_, _)
BitXor(a, b) ==
  IF a = 0 THEN b
  ELSE IF b = 0 THEN a
  ELSE (((a % 2) + (b % 2)) % 2) + 2 * BitXor(a \div 2, b \div 2)

RECURSIVE BitOr(_, _)
BitOr(a, b) ==
  IF a = 0 THEN b
  ELSE IF b = 0 THEN a
  ELSE (IF (a % 2) + (b % 2) > 0 THEN 1 ELSE 0) + 2 * BitOr(a \div 2, b \div 2)

Xor32(x, y) == <<BitXor(x[1], y[1]), BitXor(x[2], y[2])>>

\* x | k for a constant k below 2^16
OrLow(x, k) == <<x[1], BitOr(x[2], k)>>

\* (x + y) | 0
Add32(x, y) ==
  LET lo == x[2] + y[2]
  IN  <<(x[1] + y[1] + (lo \div 65536)) % 65536, lo % 65536>>

\* x >>> k, for 0 < k < 16
Shr32(x, k) ==
  <<x[1] \div (2 ^ k), ((x[1] % (2 ^ k)) * (2 ^ (16 - k))) + (x[2] \div (2 ^ k))>>

\* the full product of two 16-bit halves, as a word
Mul16(a, b) ==
  LET p0 == (a % 256) * b
      p1 == (a \div 256) * b
      s  == p0 + ((p1 % 256) * 256)
  IN  <<((s \div 65536) + (p1 \div 256)) % 65536, s % 65536>>

\* Math.imul(x, y)
Imul(x, y) ==
  LET low   == Mul16(x[2], y[2])
      cross == (Mul16(x[1], y[2])[2] + Mul16(x[2], y[1])[2]) % 65536
  IN  <<(low[1] + cross) % 65536, low[2]>>

(***************************************************************************)
(* Strings and seeds                                                       *)
(***************************************************************************)

\* str.charCodeAt(i) for the characters the model's strings use
charCodeAt(ch) ==
  CASE ch = "-" -> 45
    [] ch = "0" -> 48 [] ch = "1" -> 49 [] ch = "2" -> 50 [] ch = "3" -> 51
    [] ch = "4" -> 52 [] ch = "5" -> 53 [] ch = "6" -> 54 [] ch = "7" -> 55
    [] ch = "8" -> 56 [] ch = "9" -> 57
    [] ch = "A" -> 65 [] ch = "B" -> 66
    [] ch = "a" -> 97 [] ch = "b" -> 98 [] ch = "c" -> 99 [] ch = "d" -> 100
    [] ch = "e" -> 101 [] ch = "s" -> 115
    [] OTHER -> 63

\* hashString: hash = ((hash << 5) - hash) + char; hash |= 0, from hash = 0
RECURSIVE hashFrom(_, _, _)
hashFrom(h, str, i) ==
  IF i > Len(str) THEN h
  ELSE LET lo == (h[2] * 31) + charCodeAt(str[i])
       IN  hashFrom(<<((h[1] * 31) + (lo \div 65536)) % 65536, lo % 65536>>, str, i + 1)

hashString(str) == hashFrom(<<0, 0>>, str, 1)

\* A seed argument: absent (null, the default), a number [t |-> "num", v |-> n]
\* or a string [t |-> "str", v |-> s].
NoSeed == [t |-> "none"]

\* JavaScript truthiness of the seed argument, as tested by `seed ? ... : ...`
Truthy(seed) ==
  CASE seed.t = "none" -> FALSE
    [] seed.t = "num"  -> seed.v # 0
    [] seed.t = "str"  -> Len(seed.v) > 0

\* seededRandom(seed): the closure's initial state (the seed as a 32-bit word)
seededRandom(seed) ==
  IF seed.t = "str" THEN hashString(seed.v) ELSE <<0, seed.v>>

\* one call of the closure: its state after `seed = seed + 0x6D2B79F5 | 0`
RandStep(s) == Add32(s, <<27947, 31221>>)

\* the value the call returns, as the 32-bit numerator of value / 4294967296
Mix1(s) == Imul(Xor32(s, Shr32(s, 15)), OrLow(s, 1))
Mix2(t) == Xor32(Add32(t, Imul(Xor32(t, Shr32(t, 7)), OrLow(t, 61))), t)
Mix3(t) == Xor32(t, Shr32(t, 14))
RandOut(s) == Mix3(Mix2(Mix1(s)))

\* Math.floor(r * n) for r = u / 2^32 and a small n
FloorMul(u, n) == ((u[1] * n) + ((u[2] * n) \div 65536)) \div 65536

\* r < rate, for a rate given as the 32-bit numerator of rate / 2^32
Below(u, rate) == u[1] < rate[1] \/ (u[1] = rate[1] /\ u[2] < rate[2])

(***************************************************************************)
(* Range matcher and exclusivity classifier                                *)
(***************************************************************************)

IsDigit(ch) == charCodeAt(ch) >= 48 /\ charCodeAt(ch) <= 57

RECURSIVE SkipSpaces(_, _)
SkipSpaces(str, i) ==
  IF i <= Len(str) /\ str[i] = " " THEN SkipSpaces(str, i + 1) ELSE i

RECURSIVE ParseDigits(_, _, _)
ParseDigits(str, i, acc) ==
  IF i <= Len(str) /\ IsDigit(str[i])
  THEN ParseDigits(str, i + 1, (acc * 10) + (charCodeAt(str[i]) - 48))
  ELSE acc

\* parseInt(str, 10): leading blanks, an optional sign, the leading digits;
\* NaN (ok is FALSE) when no digit follows
parseInt(str) ==
  LET i0   == SkipSpaces(str, 1)
      sgn  == i0 <= Len(str) /\ str[i0] \in {"-", "+"}
      i1   == IF sgn THEN i0 + 1 ELSE i0
  IN  IF i1 <= Len(str) /\ IsDigit(str[i1])
      THEN [ok |-> TRUE,
            v  |-> IF sgn /\ str[i0] = "-" THEN 0 - ParseDigits(str, i1, 0)
                   ELSE ParseDigits(str, i1, 0)]
      ELSE [ok |-> FALSE, v |-> 0]

\* the index of the first "-" of str at or after i, Len(str) + 1 when none
RECURSIVE DashFrom(_, _)
DashFrom(str, i) ==
  IF i > Len(str) \/ str[i] = "-" THEN i ELSE DashFrom(str, i + 1)

\* the dashed range with its lower bound excluded (> for >=)
isInRangeOpen(cn, rangeStr) ==
  LET cnNum == parseInt(cn)
      d     == DashFrom(rangeStr, 1)
  IN  IF ~cnNum.ok THEN FALSE
      ELSE IF d <= Len(rangeStr)
      THEN LET start == parseInt(SubSeq(rangeStr, 1, d - 1))
               end   == parseInt(SubSeq(rangeStr, d + 1, DashFrom(rangeStr, d + 1) - 1))
           IN  /\ start.ok /\ cnNum.v > start.v
               /\ end.ok /\ cnNum.v <= end.v
      ELSE LET single == parseInt(rangeStr)
           IN  single.ok /\ cnNum.v = single.v

\* isInRange(cn, rangeStr); start and end are the first two pieces of
\* rangeStr.split('-'), parsed
isInRange(cn, rangeStr) ==
  LET cnNum == parseInt(cn)
      d     == DashFrom(rangeStr, 1)
  IN  IF ~cnNum.ok THEN FALSE
      ELSE IF d <= Len(rangeStr)
      THEN LET start == parseInt(SubSeq(rangeStr, 1, d - 1))
               end   == parseInt(SubSeq(rangeStr, d + 1, DashFrom(rangeStr, d + 1) - 1))
           IN  /\ start.ok /\ cnNum.v >= start.v
               /\ end.ok /\ cnNum.v <= end.v
      ELSE LET single == parseInt(rangeStr)
           IN  single.ok /\ cnNum.v = single.v

\* ranges.some(range => isInRange(cn, range))
SomeRange(cn, ranges) == \E k \in 1..Len(ranges) : isInRange(cn, ranges[k])

COLLECTOR_EXCLUSIVE_PROMOS ==
  {"fracturefoil", "texturedfoil", "ripplefoil", "halofoil", "confettifoil",
   "galaxyfoil", "surgefoil", "raisedfoil", "headliner"}

COLLECTOR_EXCLUSIVE_FRAMES == {"inverted", "extendedart"}

\* null and undefined, the two falsy values a cache slot can hold
Null      == [isNull |-> TRUE]
Undefined == [isUndefined |-> TRUE]
Falsy(v)  == "isNull" \in DOMAIN v \/ "isUndefined" \in DOMAIN v

\* A set config is null or an object with optional fields.
IsNull(v) == "isNull" \in DOMAIN v

\* setConfig?.playBooster?.includeCollectorNumbers is truthy
HasPlayRanges(setConfig) ==
  /\ ~IsNull(setConfig)
  /\ "playBooster" \in DOMAIN setConfig
  /\ "includeCollectorNumbers" \in DOMAIN setConfig.playBooster

\* setConfig?.collectorExclusive?.collectorNumbers is truthy
HasExclusiveRanges(setConfig) ==
  /\ ~IsNull(setConfig)
  /\ "collectorExclusive" \in DOMAIN setConfig
  /\ "collectorNumbers" \in DOMAIN setConfig.collectorExclusive

\* isInPlayBooster(card, setConfig): "null", "true" or "false"
isInPlayBooster(card, setConfig) ==
  IF ~HasPlayRanges(setConfig) THEN "null"
  ELSE IF SomeRange(card.collector_number, setConfig.playBooster.includeCollectorNumbers)
       THEN "true" ELSE "false"

\* isCollectorExclusiveByConfig(card, setConfig): "null", "true" or "false"
isCollectorExclusiveByConfig(card, setConfig) ==
  IF ~HasExclusiveRanges(setConfig) THEN "null"
  ELSE IF SomeRange(card.collector_number, setConfig.collectorExclusive.collectorNumbers)
       THEN "true" ELSE "false"

\* the generic rule: a premium promo type or a premium frame effect
GenericExclusive(card) ==
  \/ card.promo_types \cap COLLECTOR_EXCLUSIVE_PROMOS # {}
  \/ card.frame_effects \cap COLLECTOR_EXCLUSIVE_FRAMES # {}

\* the two tiers in the wrong order: the generic rule is consulted first
isCollectorExclusiveGenericFirst(card, setConfig) ==
  IF GenericExclusive(card) THEN TRUE
  ELSE /\ ~IsNull(setConfig)
       /\ isInPlayBooster(card, setConfig) = "false"
       /\ isCollectorExclusiveByConfig(card, setConfig) = "true"

\* isCollectorExclusive(card, setConfig = null)
isCollectorExclusive(card, setConfig) ==
  IF ~IsNull(setConfig) /\ isInPlayBooster(card, setConfig) = "true" THEN FALSE
  ELSE IF /\ ~IsNull(setConfig)
          /\ isInPlayBooster(card, setConfig) = "false"
          /\ isCollectorExclusiveByConfig(card, setConfig) = "true" THEN TRUE
  ELSE GenericExclusive(card)

(***************************************************************************)
(* Sealed pool generation                                                  *)
(*                                                                         *)
(* A random source is the state word of a mulberry32 closure.  A draw      *)
(* state is [s |-> the closure's state, pool |-> the ids pushed so far].   *)
(***************************************************************************)

\* cards.filter(c => c.rarity === rarity)
ByRarity(cards, rarity) == SelectSeq(cards, LAMBDA c : c.rarity = rarity)

\* pickRandom(arr, random): arr[Math.floor(random() * arr.length)], pushed
PickInto(st, arr) ==
  LET s1 == RandStep(st.s)
  IN  [s |-> s1, pool |-> Append(st.pool, arr[FloorMul(RandOut(s1), Len(arr)) + 1].id)]

\* for (i = 0; i < n; i++) if (arr.length > 0) pool.push(pickRandom(arr, random))
\* TRUE of every draw state.  TLC hands operator arguments on unevaluated;
\* each loop below tests it on entry, which evaluates the state before the
\* next iteration and keeps the evaluation depth of a long pool bounded.
Evaluated(st) == Len(st.pool) >= 0

\* the pick loop with its bound off by one (i <= n for i < n)
RECURSIVE PickTimesOffByOne(_, _, _)
PickTimesOffByOne(st, arr, n) ==
  IF ~Evaluated(st) \/ Len(arr) = 0 THEN st
  ELSE IF n = 0 THEN PickInto(st, arr)
  ELSE PickTimesOffByOne(PickInto(st, arr), arr, n - 1)

\* the pick loop without its emptiness test: pickRandom on an empty array
\* returns undefined, which is pushed
RECURSIVE PickTimesUnguarded(_, _, _)
PickTimesUnguarded(st, arr, n) ==
  IF ~Evaluated(st) \/ n = 0 THEN st
  ELSE IF Len(arr) = 0
  THEN PickTimesUnguarded([s |-> RandStep(st.s), pool |-> Append(st.pool, 0)], arr, n - 1)
  ELSE PickTimesUnguarded(PickInto(st, arr), arr, n - 1)

RECURSIVE PickTimes(_, _, _)
PickTimes(st, arr, n) ==
  IF ~Evaluated(st) \/ n = 0 \/ Len(arr) = 0 THEN st
  ELSE PickTimes(PickInto(st, arr), arr, n - 1)

\* the packs generateSealedPool makes, whatever its caller was asked for
LegacyPacks == 6
LegacyUncommons == 3
LegacyCommons == 10

\* one pack of generateSealedPool
LegacyPack(st, cards) ==
  LET s1       == RandStep(st.s)
      isMythic == Below(RandOut(s1), <<8192, 0>>) /\ Len(ByRarity(cards, "mythic")) > 0
      rarePool == IF isMythic THEN ByRarity(cards, "mythic") ELSE ByRarity(cards, "rare")
      st1      == PickTimes([s |-> s1, pool |-> st.pool], rarePool, 1)
      st2      == PickTimes(st1, ByRarity(cards, "uncommon"), LegacyUncommons)
  IN  PickTimes(st2, ByRarity(cards, "common"), LegacyCommons)

RECURSIVE LegacyLoop(_, _, _)
LegacyLoop(st, cards, pack) ==
  IF ~Evaluated(st) \/ pack >= LegacyPacks THEN st
  ELSE LegacyLoop(LegacyPack(st, cards), cards, pack + 1)

\* generateSealedPool(cards, seed) drawing from the source `random`
generateSealedPool(cards, random) ==
  LegacyLoop([s |-> random, pool |-> <<>>], cards, 0).pool

\* ---- structured branch ----

HasPool(slot)     == "pool" \in DOMAIN slot
HasRarities(slot) == "rarities" \in DOMAIN slot
HasCount(slot)    == "count" \in DOMAIN slot /\ slot.count # 0

\* ranges.push(...finishRanges) over Object.values(slot.pool)
RECURSIVE FlattenRanges(_, _)
FlattenRanges(pool, k) ==
  IF k > Len(pool) THEN <<>> ELSE pool[k].ranges \o FlattenRanges(pool, k + 1)

SlotRanges(slot) == FlattenRanges(slot.pool, 1)

\* push the cards of `matching` whose id the bucket does not hold yet
RECURSIVE AddUnique(_, _, _)
AddUnique(bucket, matching, i) ==
  IF i > Len(matching) THEN bucket
  ELSE AddUnique(IF \E k \in 1..Len(bucket) : bucket[k].id = matching[i].id
                 THEN bucket ELSE Append(bucket, matching[i]),
                 matching, i + 1)

\* the buckets filled by rarity alone, the range test dropped
RECURSIVE BucketsOfSlotAnyNumber(_, _, _, _)
BucketsOfSlotAnyNumber(b, slot, cards, j) ==
  IF j > Len(slot.rarities) THEN b
  ELSE BucketsOfSlotAnyNumber(
         [b EXCEPT ![slot.rarities[j]] =
            AddUnique(b[slot.rarities[j]],
                      SelectSeq(cards, LAMBDA c : c.rarity = slot.rarities[j]), 1)],
         slot, cards, j + 1)

RECURSIVE BucketsOfSlot(_, _, _, _)
BucketsOfSlot(b, slot, cards, j) ==
  IF j > Len(slot.rarities) THEN b
  ELSE LET rarity   == slot.rarities[j]
           matching == SelectSeq(cards, LAMBDA c :
                         c.rarity = rarity /\ SomeRange(c.collector_number, SlotRanges(slot)))
       IN  BucketsOfSlot([b EXCEPT ![rarity] = AddUnique(b[rarity], matching, 1)],
                         slot, cards, j + 1)

RECURSIVE BucketsOfSlots(_, _, _, _)
BucketsOfSlots(b, slots, cards, k) ==
  IF k > Len(slots) THEN b
  ELSE BucketsOfSlots(IF HasPool(slots[k]) /\ HasRarities(slots[k])
                      THEN BucketsOfSlot(b, slots[k], cards, 1) ELSE b,
                      slots, cards, k + 1)

\* cardsByRarityInPool
cardsByRarityInPool(slots, cards) ==
  BucketsOfSlots([r \in {"common", "uncommon", "rare", "mythic", "special"} |-> <<>>],
                 slots, cards, 1)

\* allInPool
allInPool(slots, cards) ==
  SelectSeq(cards, LAMBDA c :
    \E k \in 1..Len(slots) :
      HasPool(slots[k]) /\ SomeRange(c.collector_number, SlotRanges(slots[k])))

\* the slot's mythicRate ignored: always 0.125
MythicRateDefault(slot) == <<8192, 0>>

\* slot.mythicRate ?? 0.125, as a 32-bit numerator
MythicRate(slot) == IF "mythicRate" \in DOMAIN slot THEN slot.mythicRate ELSE <<8192, 0>>

\* one iteration of the item loop of a slot; buckets is cardsByRarityInPool
\* and inPool is allInPool
DrawItem(st, slot, buckets, inPool) ==
  IF HasRarities(slot)
  THEN IF /\ \E j \in 1..Len(slot.rarities) : slot.rarities[j] = "mythic"
          /\ \E j \in 1..Len(slot.rarities) : slot.rarities[j] = "rare"
       THEN LET hasMythics == Len(buckets["mythic"]) > 0
                s1         == IF hasMythics THEN RandStep(st.s) ELSE st.s
                rarity     == IF hasMythics /\ Below(RandOut(s1), MythicRate(slot))
                              THEN "mythic" ELSE "rare"
            IN  PickTimes([s |-> s1, pool |-> st.pool], buckets[rarity], 1)
       ELSE LET s1         == RandStep(st.s)
                n          == Len(slot.rarities)
                rarityPool == IF n = 0 THEN <<>>
                              ELSE buckets[slot.rarities[FloorMul(RandOut(s1), n) + 1]]
            IN  PickTimes([s |-> s1, pool |-> st.pool], rarityPool, 1)
  ELSE LET slotCards == SelectSeq(inPool, LAMBDA c :
                          SomeRange(c.collector_number, SlotRanges(slot)))
       IN  PickTimes(st, slotCards, 1)

RECURSIVE DrawItems(_, _, _, _, _)
DrawItems(st, slot, buckets, inPool, i) ==
  IF ~Evaluated(st) \/ i >= slot.count THEN st
  ELSE DrawItems(DrawItem(st, slot, buckets, inPool), slot, buckets, inPool, i + 1)

\* the slots visited from the last declared to the first
RECURSIVE DrawSlotsReversed(_, _, _, _, _)
DrawSlotsReversed(st, slots, buckets, inPool, k) ==
  IF ~Evaluated(st) \/ k > Len(slots) THEN st
  ELSE DrawSlotsReversed(IF HasPool(slots[Len(slots) + 1 - k])
                            /\ HasCount(slots[Len(slots) + 1 - k])
                         THEN DrawItems(st, slots[Len(slots) + 1 - k], buckets, inPool, 0)
                         ELSE st,
                         slots, buckets, inPool, k + 1)

RECURSIVE DrawSlots(_, _, _, _, _)
DrawSlots(st, slots, buckets, inPool, k) ==
  IF ~Evaluated(st) \/ k > Len(slots) THEN st
  ELSE DrawSlots(IF HasPool(slots[k]) /\ HasCount(slots[k])
                 THEN DrawItems(st, slots[k], buckets, inPool, 0) ELSE st,
                 slots, buckets, inPool, k + 1)

RECURSIVE DrawPacks(_, _, _, _, _, _)
DrawPacks(st, slots, buckets, inPool, numPacks, pack) ==
  IF ~Evaluated(st) \/ pack >= numPacks THEN st
  ELSE DrawPacks(DrawSlots(st, slots, buckets, inPool, 1),
                 slots, buckets, inPool, numPacks, pack + 1)

\* the structured branch of generateSealedPoolFromBoosterData
generateStructured(slots, cards, numPacks, random) ==
  DrawPacks([s |-> random, pool |-> <<>>], slots,
            cardsByRarityInPool(slots, cards), allInPool(slots, cards),
            numPacks, 0).pool

(***************************************************************************)
(* Data: cards, catalogs, the booster dataset's documents                  *)
(***************************************************************************)

Card(id, cn, rarity, promos, frames) ==
  [id |-> id, collector_number |-> cn, rarity |-> rarity,
   promo_types |-> promos, frame_effects |-> frames, booster |-> TRUE]

\* every rarity present, no premium treatment
CatalogPlain ==
  << Card(1, <<"1">>, "mythic", {}, {}),
     Card(2, <<"2">>, "rare", {}, {}),
     Card(3, <<"3">>, "rare", {}, {}),
     Card(4, <<"4">>, "uncommon", {}, {}),
     Card(5, <<"5">>, "uncommon", {"stamped"}, {}),
     Card(6, <<"6">>, "common", {}, {}),
     Card(7, <<"7">>, "common", {}, {"showcase"}),
     Card(8, <<"8">>, "common", {}, {}) >>

\* the same with collector-exclusive printings among the cards
CatalogMixed ==
  CatalogPlain \o
  << Card(9, <<"2", "0">>, "rare", {"fracturefoil"}, {}),
     Card(10, <<"3", "0">>, "common", {}, {"extendedart"}),
     Card(11, <<"a", "b", "c">>, "uncommon", {}, {}) >>

\* no mythic and no uncommon card
CatalogSparse ==
  << Card(2, <<"2">>, "rare", {}, {}),
     Card(6, <<"6">>, "common", {}, {}),
     Card(7, <<"7">>, "common", {}, {}) >>

\* the catalogs handed to the generator and served by the provider; the last
\* two are a catalog with a mythic and no rare, and the empty catalog
Catalogs ==
  << CatalogPlain, CatalogMixed, CatalogSparse,
     << Card(1, <<"1">>, "mythic", {}, {}), Card(6, <<"6">>, "common", {}, {}) >>,
     << >> >>

\* the card of a catalog with the given id
CardOf(cards, id) == cards[CHOOSE k \in 1..Len(cards) : cards[k].id = id]

\* index.json as the dataset serves it
GoodIndex ==
  [version |-> "1.0.0",
   boosters |-> [mkm |-> <<"play", "collector">>, jmp |-> <<"jumpstart">>]]

\* a fallback without its boosters mapping
FallbackWithoutBoosters == [version |-> "0.0.0"]

\* { version: '0.0.0', boosters: {} }, the value cached when the load fails
FallbackIndex == [version |-> "0.0.0", boosters |-> <<>>]

\* the documents the dataset can serve as index.json: the second lacks its
\* boosters mapping
IndexDocs == {GoodIndex, [version |-> "1.0.0"]}

\* boosters/mkm-play.json
PlayFile ==
  [setName |-> "Murders at Karlov Manor", source |-> "booster-data",
   slots |-> <<
     [name |-> "rareMythic", count |-> 1, rarities |-> <<"rare", "mythic">>,
      pool |-> <<[finish |-> "nonfoil", ranges |-> << <<"1", "-", "3">> >>]>>],
     [name |-> "uncommon", count |-> 2, rarities |-> <<"uncommon">>,
      pool |-> <<[finish |-> "nonfoil", ranges |-> << <<"4", "-", "5">> >>]>>],
     [name |-> "common", count |-> 3, rarities |-> <<"common">>,
      pool |-> <<[finish |-> "nonfoil", ranges |-> << <<"6">>, <<"7", "-", "8">> >>]>>],
     [name |-> "wildcard", count |-> 1,
      pool |-> <<[finish |-> "foil", ranges |-> << <<"1", "-", "8">> >>],
                 [finish |-> "etched", ranges |-> << <<"2", "0">> >>]>>],
     [name |-> "notes"] >>]

\* a play file whose slots declare a mythicRate (0.5 and 0, as 32-bit
\* numerators), a third rarity beside rare and mythic, two rarities to pick
\* from, a pool without a count and a count without a pool
PlayFileRated ==
  [setName |-> "Murders at Karlov Manor", source |-> "booster-data",
   slots |-> <<
     [name |-> "rated", count |-> 1, rarities |-> <<"rare", "mythic", "uncommon">>,
      mythicRate |-> <<32768, 0>>,
      pool |-> <<[finish |-> "nonfoil", ranges |-> << <<"1", "-", "5">> >>]>>],
     [name |-> "never", count |-> 2, rarities |-> <<"mythic", "rare">>,
      mythicRate |-> <<0, 0>>,
      pool |-> <<[finish |-> "nonfoil", ranges |-> << <<"1", "-", "3">> >>]>>],
     [name |-> "noCount", rarities |-> <<"common">>,
      pool |-> <<[finish |-> "nonfoil", ranges |-> << <<"6", "-", "8">> >>]>>],
     [name |-> "noPool", count |-> 3, rarities |-> <<"common">>],
     [name |-> "land", count |-> 1, rarities |-> <<"common", "uncommon">>,
      pool |-> <<[finish |-> "foil", ranges |-> << <<"4", "-", "8">> >>]>>] >>]

\* a booster file without its slots list
FileWithoutSlots == [setName |-> "Murders at Karlov Manor", source |-> "booster-data"]

\* boosters/mkm-collector.json
CollectorFile ==
  [setName |-> "Murders at Karlov Manor", source |-> "booster-data",
   slots |-> <<
     [name |-> "collectorExclusive", count |-> 1,
      pool |-> <<[finish |-> "foil", ranges |-> << <<"2", "0", "-", "3", "0">> >>]>>] >>]

FileKeys == {<<"mkm", "play">>, <<"mkm", "collector">>}

\* the documents the dataset can serve for a key
FileDocs(key) ==
  IF key = <<"mkm", "play">> THEN {PlayFile, PlayFileRated, FileWithoutSlots}
  ELSE IF key = <<"mkm", "collector">> THEN {CollectorFile}
  ELSE {}

(***************************************************************************)
(* Inputs of the generator                                                 *)
(***************************************************************************)

MaxNumPacks == 2

NumPacksArgs == 0..MaxNumPacks \cup {LegacyPacks}
SeedArgs ==
  {NoSeed, [t |-> "num", v |-> 0], [t |-> "num", v |-> 42], [t |-> "str", v |-> <<>>],
   [t |-> "str", v |-> <<"s", "e", "e", "d", "-", "A">>], [t |-> "str", v |-> <<"s">>]}

\* Math.random: a generator whose hidden state the caller neither sets nor
\* sees; a call of the pool generator finds it in any of these states
MathRandomStates == {<<4660, 22136>>, <<39612, 57072>>}

(***************************************************************************)
(* fetchSetConfig: the config derived from the booster files               *)
(***************************************************************************)

\* [...new Set(ranges)]
RECURSIVE Dedup(_, _)
Dedup(seq, k) ==
  IF k > Len(seq) THEN <<>>
  ELSE IF \E j \in 1..(k - 1) : seq[j] = seq[k] THEN Dedup(seq, k + 1)
  ELSE <<seq[k]>> \o Dedup(seq, k + 1)

\* the ranges pool lists under the finishes named by `want` (all when want = {})
RECURSIVE FinishRanges(_, _, _)
FinishRanges(pool, want, k) ==
  IF k > Len(pool) THEN <<>>
  ELSE (IF want = {} \/ pool[k].finish \in want THEN pool[k].ranges ELSE <<>>)
       \o FinishRanges(pool, want, k + 1)

\* playRanges: slot.pool?.nonfoil and slot.pool?.foil over the slots
RECURSIVE PlayRanges(_, _)
PlayRanges(slots, k) ==
  IF k > Len(slots) THEN <<>>
  ELSE (IF HasPool(slots[k])
        THEN FinishRanges(slots[k].pool, {"nonfoil"}, 1)
             \o FinishRanges(slots[k].pool, {"foil"}, 1)
        ELSE <<>>) \o PlayRanges(slots, k + 1)

\* collectorRanges: every range of the slots named collectorExclusive
RECURSIVE CollectorRanges(_, _)
CollectorRanges(slots, k) ==
  IF k > Len(slots) THEN <<>>
  ELSE (IF "name" \in DOMAIN slots[k] /\ slots[k].name = "collectorExclusive"
           /\ HasPool(slots[k])
        THEN FinishRanges(slots[k].pool, {}, 1) ELSE <<>>)
       \o CollectorRanges(slots, k + 1)

\* the config object fetchSetConfig builds from a play file that has slots and
\* the collector file (Null when it is not listed or did not load)
BuildConfig(playFile, collectorFile) ==
  IF ~Falsy(collectorFile) /\ Len(CollectorRanges(collectorFile.slots, 1)) > 0
  THEN [name |-> playFile.setName, source |-> playFile.source,
        playBooster |->
          [includeCollectorNumbers |-> Dedup(PlayRanges(playFile.slots, 1), 1)],
        collectorExclusive |->
          [collectorNumbers |-> Dedup(CollectorRanges(collectorFile.slots, 1), 1)]]
  ELSE [name |-> playFile.setName, source |-> playFile.source,
        playBooster |->
          [includeCollectorNumbers |-> Dedup(PlayRanges(playFile.slots, 1), 1)]]

(***************************************************************************)
(* Inputs of the classifier                                                *)
(*                                                                         *)
(* A card and a config are described by numbers (the collector number, the *)
(* bounds of each range) and handed to the code as the strings the numbers *)
(* are printed as.                                                         *)
(***************************************************************************)

\* String(n) for 0 <= n < 100
Digits(n) ==
  LET chars == <<"0", "1", "2", "3", "4", "5", "6", "7", "8", "9">>
  IN  IF n < 10 THEN <<chars[n + 1]>>
      ELSE <<chars[(n \div 10) + 1], chars[(n % 10) + 1]>>

\* the range string of the bounds <<a, b>>: "a" when a = b, else "a-b"
RangeStr(bounds) ==
  IF bounds[1] = bounds[2] THEN Digits(bounds[1])
  ELSE Digits(bounds[1]) \o <<"-">> \o Digits(bounds[2])

RangeStrs(list) == [k \in 1..Len(list) |-> RangeStr(list[k])]

\* largest collector number drawn
MaxCn == 12

\* a card: a collector number (none when hasNum is FALSE) followed by a
\* suffix, its promo types and its frame effects
ClsCards ==
  [hasNum : {TRUE}, num : {1, 5, 7, 10, 11, MaxCn}, suffix : {<<>>, <<"a">>},
   promos : {{}, {"fracturefoil"}}, frames : {{}, {"extendedart"}, {"showcase"}}]
  \cup
  [hasNum : {FALSE}, num : {0}, suffix : {<<"a", "b", "c">>},
   promos : {{}, {"fracturefoil"}}, frames : {{}, {"extendedart"}, {"showcase"}}]

\* the lists of range bounds a config may carry
ClsRangeLists ==
  {<<>>, << <<7, 7>> >>, << <<1, 10>> >>, << <<1, 5>>, <<11, MaxCn>> >>, << <<5, MaxCn>> >>}

\* a config: null, or an object that may declare play-booster ranges and may
\* declare collector-exclusive ranges
ClsConfigs ==
  [isNull : {FALSE}, hasPlay : BOOLEAN, play : ClsRangeLists,
   hasExcl : BOOLEAN, excl : ClsRangeLists]
  \cup
  [isNull : {TRUE}, hasPlay : {FALSE}, play : {<<>>}, hasExcl : {FALSE}, excl : {<<>>}]

\* the card object of a card description
ClsCardOf(c) ==
  [id |-> 0,
   collector_number |-> (IF c.hasNum THEN Digits(c.num) ELSE <<>>) \o c.suffix,
   rarity |-> "rare", promo_types |-> c.promos, frame_effects |-> c.frames,
   booster |-> TRUE]

\* the config object of a config description
ClsConfigOf(d) ==
  IF d.isNull THEN Null
  ELSE IF d.hasPlay /\ d.hasExcl
  THEN [name |-> "set",
        playBooster |-> [includeCollectorNumbers |-> RangeStrs(d.play)],
        collectorExclusive |-> [collectorNumbers |-> RangeStrs(d.excl)]]
  ELSE IF d.hasPlay
  THEN [name |-> "set", playBooster |-> [includeCollectorNumbers |-> RangeStrs(d.play)]]
  ELSE IF d.hasExcl
  THEN [name |-> "set", collectorExclusive |-> [collectorNumbers |-> RangeStrs(d.excl)]]
  ELSE [name |-> "set"]

\* the arguments of a call that has not run yet
ClsInput(c, d) == [pc |-> "ready", card |-> c, config |-> d, result |-> FALSE]

(***************************************************************************)
(* The daily challenge: getDailySeed, hashDate, pickDailySet               *)
(***************************************************************************)

\* getDailySeed(date): 'daily-' + dateStr, for a date given by its UTC day
\* string, date.toISOString().split('T')[0]
getDailySeed(date) == <<"d", "a", "i", "l", "y", "-">> \o date

\* a >= b for two strings, as JavaScript compares them: by the code units
\* from position k on, a proper prefix being the smaller
RECURSIVE StrGE(_, _, _)
StrGE(a, b, k) ==
  IF k > Len(b) THEN TRUE
  ELSE IF k > Len(a) THEN FALSE
  ELSE IF charCodeAt(a[k]) # charCodeAt(b[k]) THEN charCodeAt(a[k]) > charCodeAt(b[k])
  ELSE StrGE(a, b, k + 1)

\* Math.abs of the 32-bit word x read as a signed integer
Abs32(x) ==
  IF x[1] < 32768 THEN x
  ELSE <<(65535 - x[1] + (IF x[2] = 0 THEN 1 ELSE 0)) % 65536, (65536 - x[2]) % 65536>>

\* hashDate(dateStr): the rolling hash of hashString, then Math.abs
hashDate(dateStr) == Abs32(hashFrom(<<0, 0>>, dateStr, 1))

\* x % n for a non-negative x below 2^32 and a small n > 0
Mod32(x, n) == (((x[1] % n) * (65536 % n)) + (x[2] % n)) % n

\* recentSets[hashDate(dateStr) % recentSets.length] for the day string that
\* seed.replace('daily-', '') leaves of getDailySeed(date); hash % 0 is NaN
\* and recentSets[NaN] is undefined
DayIndexed(recentSets, date) ==
  IF Len(recentSets) = 0 THEN Undefined
  ELSE recentSets[Mod32(hashDate(SubSeq(getDailySeed(date), 7, Len(getDailySeed(date)))),
                        Len(recentSets)) + 1]

\* recentSets of pickDailySet: s.released && s.released >= '2020-01-01'
RecentSets(sets) ==
  SelectSeq(sets, LAMBDA st :
    /\ "released" \in DOMAIN st /\ Len(st.released) > 0
    /\ StrGE(st.released, <<"2", "0", "2", "0", "-", "0", "1", "-", "0", "1">>, 1))

\* the candidate is taken from the whole list (recentSets dropped)
pickDailySetUnfiltered(sets, date) == DayIndexed(sets, date)

\* pickDailySet(sets, date)
pickDailySet(sets, date) == DayIndexed(RecentSets(sets), date)

\* most sets in a list handed to pickDailySet
MaxSets == 3

\* the lists of sets handed to pickDailySet, made of sets released before
\* the cutoff, on it, after it, without a release date, with an empty one
DailyLists ==
  UNION {[1..n ->
  { [code |-> "eld", released |-> <<"2", "0", "1", "9", "-", "1", "0", "-", "0", "4">>],
    [code |-> "j20", released |-> <<"2", "0", "2", "0", "-", "0", "1", "-", "0", "1">>],
    [code |-> "mkm", released |-> <<"2", "0", "2", "4", "-", "0", "2", "-", "0", "9">>],
    [code |-> "otj", released |-> <<"2", "0", "2", "4", "-", "0", "4", "-", "1", "9">>],
    [code |-> "tba"],
    [code |-> "unk", released |-> <<>>] }] : n \in 0..MaxSets}

DailyDates ==
  { <<"2", "0", "2", "4", "-", "0", "1", "-", "1", "5">>,
    <<"2", "0", "2", "4", "-", "0", "1", "-", "1", "6">>,
    <<"2", "0", "2", "4", "-", "0", "2", "-", "2", "9">>,
    <<"2", "0", "2", "5", "-", "0", "6", "-", "3", "0">> }

\* the arguments of calls that have not run yet
DailyInput(sets, date) ==
  [calls |-> 0, sets |-> sets, date |-> date, outcome |-> "none",
   result |-> Undefined, before |-> Undefined]

(***************************************************************************)
(* Booster type detection: getBoosterEra, getAvailableBoosterTypes         *)
(***************************************************************************)

COLLECTOR_BOOSTER_START == <<"2", "0", "1", "9", "-", "1", "0", "-", "0", "4">>
SET_BOOSTER_START       == <<"2", "0", "2", "0", "-", "0", "9", "-", "2", "5">>
PLAY_BOOSTER_START      == <<"2", "0", "2", "4", "-", "0", "2", "-", "0", "9">>

JUMPSTART_SETS == {"jmp", "j22", "j25"}

\* the boundaries open on the later side (> for >=)
getBoosterEraOpen(releaseDate) ==
  IF releaseDate # PLAY_BOOSTER_START /\ StrGE(releaseDate, PLAY_BOOSTER_START, 1)
  THEN "play"
  ELSE IF releaseDate # SET_BOOSTER_START /\ StrGE(releaseDate, SET_BOOSTER_START, 1)
  THEN "set"
  ELSE IF releaseDate # COLLECTOR_BOOSTER_START
          /\ StrGE(releaseDate, COLLECTOR_BOOSTER_START, 1)
  THEN "collector-era"
  ELSE "draft"

\* getBoosterEra(releaseDate)
getBoosterEra(releaseDate) ==
  IF StrGE(releaseDate, PLAY_BOOSTER_START, 1) THEN "play"
  ELSE IF StrGE(releaseDate, SET_BOOSTER_START, 1) THEN "set"
  ELSE IF StrGE(releaseDate, COLLECTOR_BOOSTER_START, 1) THEN "collector-era"
  ELSE "draft"

\* the two date tests in the other order
getAvailableBoosterTypesCollectorFirst(setCode, releaseDate) ==
  IF setCode \in JUMPSTART_SETS THEN <<"jumpstart">>
  ELSE IF StrGE(releaseDate, COLLECTOR_BOOSTER_START, 1) THEN <<"draft", "collector">>
  ELSE IF StrGE(releaseDate, PLAY_BOOSTER_START, 1) THEN <<"play", "collector">>
  ELSE <<"draft">>

\* getAvailableBoosterTypes(setCode, releaseDate)
getAvailableBoosterTypes(setCode, releaseDate) ==
  IF setCode \in JUMPSTART_SETS THEN <<"jumpstart">>
  ELSE IF StrGE(releaseDate, PLAY_BOOSTER_START, 1) THEN <<"play", "collector">>
  ELSE IF StrGE(releaseDate, COLLECTOR_BOOSTER_START, 1) THEN <<"draft", "collector">>
  ELSE <<"draft">>

(***************************************************************************)
(* Inputs of the pure functions                                            *)
(*                                                                         *)
(* A release date is described by the number yyyymmdd and a range bound by *)
(* an integer; the code is handed the strings they are written as.         *)
(***************************************************************************)

\* the release date yyyymmdd as the provider writes it: "yyyy-mm-dd"
IsoDate(n) ==
  LET two(k) == IF k < 10 THEN <<"0">> \o Digits(k) ELSE Digits(k)
  IN  two(n \div 1000000) \o two((n \div 10000) % 100) \o <<"-">>
      \o two((n \div 100) % 100) \o <<"-">> \o two(n % 100)

\* String(n) for -100 < n < 100
IntStr(n) == IF n < 0 THEN <<"-">> \o Digits(0 - n) ELSE Digits(n)

\* release dates: far from, the day before, on and the day after each
\* threshold, and dates whose month and day order differently from the date
ReleaseDates ==
  {19930805, 19990215, 20191003, 20191004, 20191005, 20191101, 20191231, 20200130,
   20200924, 20200925, 20200926, 20231231, 20240208, 20240209, 20240210, 20250101}

\* the arguments of getBoosterEra (twice), getAvailableBoosterTypes and
\* isInRange calls that have not run yet; a collector number is an integer
\* (none when hasNum is FALSE) followed by a suffix, a range is "a" or "a-b"
PureInputs ==
  [fn : {"getBoosterEra"}, d1 : ReleaseDates, d2 : ReleaseDates]
  \cup [fn : {"getAvailableBoosterTypes"}, setCode : {"jmp", "j25", "mkm", "zzz"},
        d1 : ReleaseDates]
  \cup [fn : {"isInRange"}, hasNum : {TRUE}, num : {-3, 0, 1, 5, 7, 10, 11, MaxCn},
        suffix : {<<>>, <<"a">>}, dashed : BOOLEAN,
        a : {-5, 0, 1, 7, 10, MaxCn}, b : {-5, 0, 1, 7, 10, MaxCn}]
  \cup [fn : {"isInRange"}, hasNum : {FALSE}, num : {0},
        suffix : {<<>>, <<"a", "b", "c">>}, dashed : BOOLEAN,
        a : {1}, b : {10}]

\* no call of a pure function is under way
PureIdle == [done |-> FALSE, arg |-> [fn |-> "none"], result |-> <<>>]

(***************************************************************************)
(* Concurrent callers of the two caches                                    *)
(***************************************************************************)

\* the callers that may have a load in progress at the same time
Loaders == {1, 2}

LoadIdle == [pc |-> "idle", slot |-> <<"index">>, got |-> Undefined]

(***************************************************************************)
(* State                                                                   *)
(***************************************************************************)

VARIABLES
  boosterIndexCache,  \* let boosterIndexCache = null
  boosterFileCache,   \* let boosterFileCache = {}
  gen,                \* the generateSealedPoolFromBoosterData call
  prev,               \* the pool the previous call with the same arguments returned
  acq,                \* the fetchSetCards / fetchAllSetCards call
  cls,                \* an isCollectorExclusive(card, setConfig) call
  daily,              \* the pickDailySet(sets, date) calls
  loads,              \* concurrent loadBoosterIndex / loadBoosterFile calls
  pure                \* a call of getBoosterEra, getAvailableBoosterTypes or isInRange

vars == <<boosterIndexCache, boosterFileCache, gen, prev, acq, cls, daily, loads, pure>>

\* no fetchWithRetry call has ended yet
NoFetch == [result |-> "none", error |-> "", n429 |-> 0, nGeneric |-> 0, attempts |-> 0]

AcqIdle ==
  [pc |-> "idle", fn |-> "none", setCode |-> "zzz", boosterType |-> "play", cat |-> 1,
   config |-> Null, url |-> 0, i |-> 0, first |-> TRUE, cards |-> <<>>,
   n429 |-> 0, nGeneric |-> 0, caught404 |-> FALSE, last |-> NoFetch,
   outcome |-> "none", error |-> "", result |-> <<>>,
   includeSpecialGuests |-> FALSE, side |-> "main", asked |-> <<>>,
   specialGuests |-> <<>>]

GenIdle ==
  [pc |-> "idle", setCode |-> "zzz", cat |-> 1, numPacks |-> 0, seed |-> NoSeed,
   key |-> <<>>, outcome |-> "none", branch |-> "none", source |-> "none",
   file |-> Null, random |-> <<0, 0>>, pool |-> <<>>]

\* module load: both caches empty, no call in progress
Loaded ==
  /\ boosterIndexCache = Null
  /\ boosterFileCache = [k \in FileKeys |-> Undefined]
  /\ gen = GenIdle
  /\ prev = [valid |-> FALSE, pool |-> <<>>]
  /\ acq = AcqIdle

Init ==
  /\ Loaded
  /\ cls = ClsInput(CHOOSE c \in ClsCards : TRUE, CHOOSE c \in ClsConfigs : TRUE)
  /\ daily = DailyInput(<<>>, CHOOSE d \in DailyDates : TRUE)
  /\ loads = [p \in Loaders |-> LoadIdle]
  /\ pure = PureIdle

Includes(seq, v) == \E k \in 1..Len(seq) : seq[k] = v

\* const random = seed ? seededRandom(seed) : Math.random, with e the state
\* Math.random is in
RandomOf(seed, e) == IF Truthy(seed) THEN seededRandom(seed) ELSE e

SourceOf(seed) == IF Truthy(seed) THEN "seeded" ELSE "nondet"

\* the states a random source can start in
RandomStates ==
  MathRandomStates \cup {seededRandom(seed) : seed \in {sd \in SeedArgs : Truthy(sd)}}

\* generateSealedPool and the structured branch, tabulated over the inputs
\* (the booster files that have a slots list)
LegacyPools ==
  [c \in 1..Len(Catalogs), r \in RandomStates |-> generateSealedPool(Catalogs[c], r)]

StructuredPools ==
  [f \in {d \in UNION {FileDocs(k) : k \in FileKeys} : "slots" \in DOMAIN d},
   c \in 1..Len(Catalogs), n \in NumPacksArgs, r \in RandomStates |->
     generateStructured(f.slots, Catalogs[c], n, r)]

\* return generateSealedPool(cards, seed)
LegacyResult(g, e) ==
  [g EXCEPT !.pc = "done", !.outcome = "returned", !.branch = "legacy",
            !.source = SourceOf(g.seed), !.random = RandomOf(g.seed, e),
            !.pool = LegacyPools[g.cat, RandomOf(g.seed, e)]]

\* the slot loops, then return pool
StructuredResult(g, file, e) ==
  [g EXCEPT !.pc = "done", !.outcome = "returned", !.branch = "structured",
            !.source = SourceOf(g.seed), !.random = RandomOf(g.seed, e), !.file = file,
            !.pool = StructuredPools[file, g.cat, g.numPacks, RandomOf(g.seed, e)]]

\* the call from `if (!boosterFile?.slots)` on, boosterFile in hand
AfterFile(g, file, e) ==
  IF Falsy(file) \/ "slots" \notin DOMAIN file THEN LegacyResult(g, e)
  ELSE StructuredResult(g, file, e)

\* types.includes('play') ? 'play' : types.includes('draft') ? 'draft' : null
PlayTypeOf(types) ==
  IF Includes(types, "play") THEN "play"
  ELSE IF Includes(types, "draft") THEN "draft" ELSE "none"

\* the call from `const types = index.boosters[setCode]` on, index in hand,
\* up to its return or to the fetch of the booster file
AfterIndex(g, index, files, e) ==
  IF "boosters" \notin DOMAIN index
  THEN [g EXCEPT !.pc = "done", !.outcome = "threw"]
  ELSE IF g.setCode \notin DOMAIN index.boosters THEN LegacyResult(g, e)
  ELSE IF PlayTypeOf(index.boosters[g.setCode]) = "none" THEN LegacyResult(g, e)
  ELSE LET key == <<g.setCode, PlayTypeOf(index.boosters[g.setCode])>>
       IN  IF ~Falsy(files[key]) THEN AfterFile(g, files[key], e)
           ELSE [g EXCEPT !.pc = "fileFetch", !.key = key]

\* the call from its first line to its return or to its first pending fetch
Started(g, e) ==
  IF ~Falsy(boosterIndexCache) THEN AfterIndex(g, boosterIndexCache, boosterFileCache, e)
  ELSE [g EXCEPT !.pc = "indexFetch"]

\* generateSealedPoolFromBoosterData(setCode, cards, numPacks, seed) is called
GenCall ==
  /\ gen.pc = "idle"
  /\ \E setCode \in {"mkm", "jmp", "zzz"}, cat \in 1..Len(Catalogs), numPacks \in NumPacksArgs,
        seed \in SeedArgs, e \in MathRandomStates :
       gen' = Started([GenIdle EXCEPT !.setCode = setCode, !.cat = cat,
                                      !.numPacks = numPacks, !.seed = seed], e)
  /\ prev' = [valid |-> FALSE, pool |-> <<>>]
  /\ UNCHANGED <<pure, daily, loads, cls, boosterIndexCache, boosterFileCache, acq>>

\* it is called again with the arguments of the call that just returned
GenCallAgain ==
  /\ gen.pc = "done" /\ gen.outcome = "returned"
  /\ \E e \in MathRandomStates :
       gen' = Started([GenIdle EXCEPT !.setCode = gen.setCode, !.cat = gen.cat,
                                      !.numPacks = gen.numPacks, !.seed = gen.seed], e)
  /\ prev' = [valid |-> TRUE, pool |-> gen.pool]
  /\ UNCHANGED <<pure, daily, loads, cls, boosterIndexCache, boosterFileCache, acq>>

\* loadBoosterIndex: the fetch of index.json and its parsing complete, or fail
GenIndexLoaded ==
  /\ gen.pc = "indexFetch"
  /\ \E doc \in IndexDocs \cup {FallbackIndex}, e \in MathRandomStates :
       /\ boosterIndexCache' = doc
       /\ gen' = AfterIndex(gen, doc, boosterFileCache, e)
  /\ UNCHANGED <<pure, daily, loads, cls, boosterFileCache, prev, acq>>

\* loadBoosterFile: the fetch of the file and its parsing complete, or fail
GenFileLoaded ==
  /\ gen.pc = "fileFetch"
  /\ \E doc \in FileDocs(gen.key) \cup {Null}, e \in MathRandomStates :
       /\ boosterFileCache' = [boosterFileCache EXCEPT ![gen.key] = doc]
       /\ gen' = AfterFile(gen, doc, e)
  /\ UNCHANGED <<pure, daily, loads, cls, boosterIndexCache, prev, acq>>

\* the caller drops the result of the call
GenForget ==
  /\ gen.pc = "done"
  /\ gen' = GenIdle
  /\ prev' = [valid |-> FALSE, pool |-> <<>>]
  /\ UNCHANGED <<pure, daily, loads, cls, boosterIndexCache, boosterFileCache, acq>>

NextGen == GenCall \/ GenCallAgain \/ GenIndexLoaded \/ GenFileLoaded \/ GenForget

SpecGen == Init /\ [][NextGen]_vars

(***************************************************************************)
(* fetchWithRetry and the acquisition pipeline                             *)
(***************************************************************************)

\* fetchWithRetry(url, retries = 3)
Retries == 3

\* items the provider serves per page
PageSize == 4

\* the message of the error the attempt raises
ErrorOf(resp) ==
  CASE resp = "404" -> "HTTP 404"
    [] resp = "500" -> "HTTP 500"
    [] OTHER -> "Failed to fetch"

Ids(cards) == [k \in 1..Len(cards) |-> cards[k].id]

\* the provider's answer to the request of page u of a catalog:
\* { data, has_more, next_page }
Page(cards, u) ==
  [data      |-> SubSeq(Ids(cards), ((u - 1) * PageSize) + 1,
                        IF u * PageSize < Len(cards) THEN u * PageSize ELSE Len(cards)),
   has_more  |-> u * PageSize < Len(cards),
   next_page |-> u + 1]

\* the filter of fetchAllSetCards under a config that has play-booster ranges
KeepByConfig(card, setConfig) ==
  IF isInPlayBooster(card, setConfig) = "true" THEN TRUE
  ELSE IF isCollectorExclusiveByConfig(card, setConfig) = "true" THEN FALSE
  ELSE card.booster /\ ~isCollectorExclusive(card, Null)

\* the filter for play/draft boosters, on the ids accumulated
FilterCards(a, ids) ==
  IF a.boosterType = "collector" THEN ids
  ELSE IF a.fn = "fetchAllSetCards" /\ HasPlayRanges(a.config)
  THEN SelectSeq(ids, LAMBDA id : KeepByConfig(CardOf(Catalogs[a.cat], id), a.config))
  ELSE SelectSeq(ids, LAMBDA id : ~isCollectorExclusive(CardOf(Catalogs[a.cat], id), Null))

\* the fetchWithRetry call in progress ends with `result`
Ended(a, result) ==
  [a EXCEPT !.last = [result |-> result, error |-> "", n429 |-> a.n429,
                      nGeneric |-> a.nGeneric, attempts |-> a.i + 1]]

\* the fetchWithRetry call in progress ends with `throw error`
Raised(a, message) ==
  [a EXCEPT !.last = [result |-> "threw", error |-> message, n429 |-> a.n429,
                      nGeneric |-> a.nGeneric, attempts |-> a.i + 1]]

\* the sets fetchSpecialGuestsCards has a side catalog for
SETS_WITH_SPECIAL_GUESTS ==
  {"lci", "mkm", "otj", "mh3", "blb", "dsk", "fdn", "dft", "tdm", "eoe", "fin"}

SETS_WITH_BIG_SCORE == {"otj"}

\* main set code -> bonus set code
BONUS_SHEET_SETS ==
  [otj |-> "otp", tla |-> "tle", spm |-> "mar", eoe |-> "eos", fin |-> "fca"]

\* the ids of the cards the provider holds for a side catalog
SideCatalog(side) == IF side = "spg" THEN <<101, 102>> ELSE <<201>>

\* a request of fetchSpecialGuestsCards is issued (query 'set:spg cn>=.. cn<=..'
\* or 'set:big'): a new fetchWithRetry call
SideRequest(a, side) ==
  [a EXCEPT !.side = side, !.asked = Append(a.asked, side),
            !.i = 0, !.n429 = 0, !.nGeneric = 0]

\* a try block of fetchSpecialGuestsCards is left, with `got` appended to
\* allCards: the Big Score request follows, or cards.concat(specialGuests)
\* is returned
SideDone(a, got) ==
  IF a.side = "spg" /\ a.setCode \in SETS_WITH_BIG_SCORE
  THEN SideRequest([a EXCEPT !.specialGuests = a.specialGuests \o got], "big")
  ELSE [a EXCEPT !.pc = "done", !.outcome = "returned",
                 !.specialGuests = a.specialGuests \o got]

\* after the try/catch: filter, add the Special Guests if requested, return
Finish(a, ids) ==
  IF a.fn = "fetchSetCards" /\ a.includeSpecialGuests
     /\ a.setCode \in SETS_WITH_SPECIAL_GUESTS
  THEN SideRequest([a EXCEPT !.cards = ids, !.result = FilterCards(a, ids)], "spg")
  ELSE [a EXCEPT !.pc = "done", !.outcome = "returned", !.cards = ids,
                 !.result = FilterCards(a, ids)]

\* the error leaves the pipeline
Thrown(a, message) == [a EXCEPT !.pc = "done", !.outcome = "threw", !.error = message]

\* a catch that passes every error on (throw error without the 404 test)
CaughtRethrows(a, message) ==
  IF a.side # "main" THEN SideDone(a, <<>>) ELSE Thrown(a, message)

\* a catch that drops the pages read so far when it swallows the 404
CaughtDiscards(a, message) ==
  IF a.side # "main" THEN SideDone(a, <<>>)
  ELSE IF message = "HTTP 404" THEN Finish([a EXCEPT !.caught404 = TRUE], <<>>)
  ELSE Thrown(a, message)

\* catch (error) { if (error.message !== 'HTTP 404') throw error; } of the
\* main catalog, catch (e) { } of fetchSpecialGuestsCards
Caught(a, message) ==
  IF a.side # "main" THEN SideDone(a, <<>>)
  ELSE IF message = "HTTP 404" THEN Finish([a EXCEPT !.caught404 = TRUE], a.cards)
  ELSE Thrown(a, message)

\* the next page is requested: a new fetchWithRetry call
NextRequest(a, ids, url) ==
  [a EXCEPT !.cards = ids, !.first = FALSE, !.url = url, !.i = 0, !.n429 = 0, !.nGeneric = 0]

\* cards = data.data || [] or cards = cards.concat(data.data || []), then the
\* test of the pagination loop
Accumulated(a, data, ids) ==
  IF data.has_more /\ data.next_page # 0 THEN NextRequest(a, ids, data.next_page)
  ELSE Finish(a, ids)

\* the page replaces the cards read so far (cards = data.data in the loop)
GotDataOverwrites(a, data) == Accumulated(a, data, data.data)

GotData(a, data) ==
  Accumulated(a, data, IF a.first THEN data.data ELSE a.cards \o data.data)

\* a call that throws when its last attempt got a 429
RateLimitedThrows(b) ==
  IF b.i + 1 < Retries THEN [b EXCEPT !.i = b.i + 1]
  ELSE Caught(Raised(b, "HTTP 429"), "HTTP 429")

\* the attempt whose counters are in b got a 429
RateLimited(b) ==
  IF b.i + 1 < Retries THEN [b EXCEPT !.i = b.i + 1]
  ELSE Caught(Ended(b, "undefined"), "Cannot read properties of undefined")

\* the last-attempt test off by one (i === retries for i === retries - 1)
FailedOffByOne(b, message) ==
  IF b.i = Retries THEN Caught(Raised(b, message), message)
  ELSE [b EXCEPT !.i = b.i + 1]

\* the attempt whose counters are in b raised an error
Failed(b, message) ==
  IF b.i = Retries - 1 THEN Caught(Raised(b, message), message)
  ELSE [b EXCEPT !.i = b.i + 1]

\* one iteration of the loop of fetchWithRetry, with what its caller does
\* when the call ends
Attempt(a, resp) ==
  CASE resp = "ok" /\ a.side = "main" ->
         GotData(Ended(a, "json"), Page(Catalogs[a.cat], a.url))
    [] resp = "ok" /\ a.side # "main" -> SideDone(Ended(a, "json"), SideCatalog(a.side))
    [] resp = "429" -> RateLimited([a EXCEPT !.n429 = a.n429 + 1])
    [] OTHER        -> Failed([a EXCEPT !.nGeneric = a.nGeneric + 1], ErrorOf(resp))

\* ---- fetchSetConfig, run to its end with the outcomes of its loads ----

IndexUsed(idoc) == IF Falsy(boosterIndexCache) THEN idoc ELSE boosterIndexCache

FileUsed(key, doc) == IF Falsy(boosterFileCache[key]) THEN doc ELSE boosterFileCache[key]

TypesOf(index, setCode) ==
  IF "boosters" \in DOMAIN index /\ setCode \in DOMAIN index.boosters
  THEN index.boosters[setCode] ELSE <<>>

\* loadBoosterFile is called for the play (or draft) file
NeedsPlay(index, setCode) == PlayTypeOf(TypesOf(index, setCode)) # "none"

\* loadBoosterFile is called for the collector file
NeedsCollector(index, setCode, playFile) ==
  /\ NeedsPlay(index, setCode)
  /\ ~Falsy(playFile) /\ "slots" \in DOMAIN playFile
  /\ Includes(TypesOf(index, setCode), "collector")

\* what fetchSetConfig returns: a config, Null, or the TypeError raised
\* on a document that lacks a field it reads
ConfigResult(index, setCode, playFile, collectorFile) ==
  IF "boosters" \notin DOMAIN index THEN [threw |-> TRUE]
  ELSE IF ~NeedsPlay(index, setCode) \/ Falsy(playFile) THEN Null
  ELSE IF "slots" \notin DOMAIN playFile THEN [threw |-> TRUE]
  ELSE IF ~NeedsCollector(index, setCode, playFile) THEN BuildConfig(playFile, Null)
  ELSE IF ~Falsy(collectorFile) /\ "slots" \notin DOMAIN collectorFile THEN [threw |-> TRUE]
  ELSE BuildConfig(playFile, collectorFile)

\* boosterFileCache after the loads fetchSetConfig made
FilesAfter(index, setCode, playFile, collectorFile) ==
  [k \in FileKeys |->
     IF NeedsPlay(index, setCode) /\ k = <<setCode, PlayTypeOf(TypesOf(index, setCode))>>
     THEN playFile
     ELSE IF NeedsCollector(index, setCode, playFile) /\ k = <<setCode, "collector">>
     THEN collectorFile
     ELSE boosterFileCache[k]]

PlayKey(index, setCode) ==
  IF NeedsPlay(index, setCode) /\ <<setCode, PlayTypeOf(TypesOf(index, setCode))>> \in FileKeys
  THEN <<setCode, PlayTypeOf(TypesOf(index, setCode))>>
  ELSE <<"mkm", "play">>

CollectorKey(setCode) ==
  IF <<setCode, "collector">> \in FileKeys THEN <<setCode, "collector">>
  ELSE <<"mkm", "collector">>

Configured(a, cfg) ==
  IF "threw" \in DOMAIN cfg
  THEN Thrown(a, "Cannot read properties of undefined")
  ELSE [a EXCEPT !.pc = "fetching", !.config = cfg, !.url = 1]

\* fetchSetCards(setCode, boosterType, {}) or fetchAllSetCards(setCode,
\* boosterType) is called; the provider holds the catalog `cat` for the query
AcqCall ==
  /\ acq.pc = "idle"
  /\ \E fn \in {"fetchSetCards", "fetchAllSetCards"}, setCode \in {"mkm", "otj", "tla", "zzz"},
        boosterType \in {"play", "collector"}, cat \in 1..Len(Catalogs),
        guests \in BOOLEAN :
       /\ guests => fn = "fetchSetCards"
       /\ acq' = [AcqIdle EXCEPT !.fn = fn, !.setCode = setCode, !.boosterType = boosterType,
                              !.cat = cat, !.url = 1, !.includeSpecialGuests = guests,
                              !.pc = IF fn = "fetchAllSetCards" THEN "config" ELSE "fetching"]
  /\ UNCHANGED <<pure, daily, loads, cls, boosterIndexCache, boosterFileCache, gen, prev>>

\* const setConfig = await fetchSetConfig(setCode): its loads complete or fail
AcqConfig ==
  /\ acq.pc = "config"
  /\ \E idoc \in IndexDocs \cup {FallbackIndex} :
     \E pdoc \in FileDocs(PlayKey(IndexUsed(idoc), acq.setCode)) \cup {Null},
        cdoc \in FileDocs(CollectorKey(acq.setCode)) \cup {Null} :
       /\ boosterIndexCache' = IndexUsed(idoc)
       /\ boosterFileCache' =
            FilesAfter(IndexUsed(idoc), acq.setCode,
                       FileUsed(PlayKey(IndexUsed(idoc), acq.setCode), pdoc),
                       FileUsed(CollectorKey(acq.setCode), cdoc))
       /\ acq' = Configured(acq,
            ConfigResult(IndexUsed(idoc), acq.setCode,
                         FileUsed(PlayKey(IndexUsed(idoc), acq.setCode), pdoc),
                         FileUsed(CollectorKey(acq.setCode), cdoc)))
  /\ UNCHANGED <<pure, daily, loads, cls, gen, prev>>

\* an `await fetch(url)` of fetchWithRetry settles: with a 2xx response and
\* its JSON body, a 429, another non-2xx status, or a rejected fetch
AcqFetch ==
  /\ acq.pc = "fetching"
  /\ \E resp \in {"ok", "429", "404", "500", "neterr"} : acq' = Attempt(acq, resp)
  /\ UNCHANGED <<pure, daily, loads, cls, boosterIndexCache, boosterFileCache, gen, prev>>

\* the caller drops the result of the call
AcqForget ==
  /\ acq.pc = "done"
  /\ acq' = AcqIdle
  /\ UNCHANGED <<pure, daily, loads, cls, boosterIndexCache, boosterFileCache, gen, prev>>

NextFetch == AcqCall \/ AcqConfig \/ AcqFetch \/ AcqForget

SpecFetch == Init /\ [][NextFetch]_vars

\* every pending fetch settles
FairSpecFetch == SpecFetch /\ WF_vars(AcqFetch)

(***************************************************************************)
(* The page's use of the module: a catalog is fetched, then a pool is      *)
(* generated, one call at a time over the same two caches                  *)
(***************************************************************************)

SpecSeq == Init /\ [][(acq.pc = "idle" /\ NextGen) \/ (gen.pc = "idle" /\ NextFetch)]_vars

(***************************************************************************)
(* The classifier as a state machine: arguments in, result out             *)
(***************************************************************************)

InitClassifier ==
  /\ Loaded
  /\ \E c \in ClsCards, d \in ClsConfigs : cls = ClsInput(c, d)
  /\ daily = DailyInput(<<>>, CHOOSE d \in DailyDates : TRUE)
  /\ loads = [p \in Loaders |-> LoadIdle]
  /\ pure = PureIdle

\* isCollectorExclusive(card, setConfig) runs
ClsCall ==
  /\ cls.pc = "ready"
  /\ cls' = [cls EXCEPT !.pc = "done",
                        !.result = isCollectorExclusive(ClsCardOf(cls.card),
                                                        ClsConfigOf(cls.config))]
  /\ UNCHANGED <<pure, daily, loads, boosterIndexCache, boosterFileCache, gen, prev, acq>>

SpecClassifier == InitClassifier /\ [][ClsCall]_vars

(***************************************************************************)
(* pickDailySet as a state machine: arguments in, result out, twice        *)
(***************************************************************************)

InitDaily ==
  /\ Loaded
  /\ cls = ClsInput(CHOOSE c \in ClsCards : TRUE, CHOOSE c \in ClsConfigs : TRUE)
  /\ \E sets \in DailyLists, date \in DailyDates : daily = DailyInput(sets, date)
  /\ loads = [p \in Loaders |-> LoadIdle]
  /\ pure = PureIdle

\* pickDailySet(sets, date) runs, a first and a second time
DailyCall ==
  /\ daily.calls < 2
  /\ daily' = [daily EXCEPT !.calls = daily.calls + 1,
                            !.before = daily.result, !.outcome = "returned",
                            !.result = pickDailySet(daily.sets, daily.date)]
  /\ UNCHANGED <<pure, boosterIndexCache, boosterFileCache, gen, prev, acq, cls, loads>>

SpecDaily == InitDaily /\ [][DailyCall]_vars

(***************************************************************************)
(* Concurrent loadBoosterIndex / loadBoosterFile calls                     *)
(***************************************************************************)

\* a cache slot: the booster index, or the booster file of a key
SlotValue(slot) ==
  IF slot = <<"index">> THEN boosterIndexCache ELSE boosterFileCache[slot]

\* the slot is assigned the promise of the body (an assignment without await)
SettledUnawaited(slot, doc) == [isPromise |-> TRUE]

\* what the slot is assigned when the fetch and response.json() have
\* completed with the document doc, or failed (doc = Null): the catch stores
\* the fallback index, or null for a booster file
Settled(slot, doc) ==
  IF Falsy(doc) THEN (IF slot = <<"index">> THEN FallbackIndex ELSE Null) ELSE doc

\* loadBoosterIndex() or loadBoosterFile(setCode, boosterType) is called by p,
\* whose previous call has returned: a truthy slot is returned at once, else
\* the fetch is issued and the caller suspended
LoadCall(p) ==
  /\ loads[p].pc \in {"idle", "done"}
  /\ \E slot \in {<<"index">>} \cup FileKeys :
       loads' = [loads EXCEPT ![p] =
                   IF Falsy(SlotValue(slot))
                   THEN [pc |-> "fetching", slot |-> slot, got |-> Undefined]
                   ELSE [pc |-> "done", slot |-> slot, got |-> SlotValue(slot)]]
  /\ UNCHANGED <<pure, boosterIndexCache, boosterFileCache, gen, prev, acq, cls, daily>>

\* the fetch of p and the parsing of its body complete, or fail: the slot is
\* assigned and returned
LoadSettle(p) ==
  /\ loads[p].pc = "fetching"
  /\ \E doc \in (IF loads[p].slot = <<"index">> THEN IndexDocs ELSE FileDocs(loads[p].slot))
                \cup {Null} :
       /\ loads' = [loads EXCEPT ![p] = [pc |-> "done", slot |-> loads[p].slot,
                                         got |-> Settled(loads[p].slot, doc)]]
       /\ IF loads[p].slot = <<"index">>
          THEN /\ boosterIndexCache' = Settled(<<"index">>, doc)
               /\ UNCHANGED boosterFileCache
          ELSE /\ boosterFileCache' =
                    [boosterFileCache EXCEPT ![loads[p].slot] = Settled(loads[p].slot, doc)]
               /\ UNCHANGED boosterIndexCache
  /\ UNCHANGED <<pure, gen, prev, acq, cls, daily>>

SpecCache == Init /\ [][\E p \in Loaders : LoadCall(p) \/ LoadSettle(p)]_vars

(***************************************************************************)
(* The pure functions as a state machine: arguments in, result out         *)
(***************************************************************************)

InitPure ==
  /\ Loaded
  /\ cls = ClsInput(CHOOSE c \in ClsCards : TRUE, CHOOSE c \in ClsConfigs : TRUE)
  /\ daily = DailyInput(<<>>, CHOOSE d \in DailyDates : TRUE)
  /\ loads = [p \in Loaders |-> LoadIdle]
  /\ \E arg \in PureInputs : pure = [PureIdle EXCEPT !.arg = arg]

\* getBoosterEra(releaseDate) runs on each of two release dates
EraCall ==
  /\ ~pure.done /\ pure.arg.fn = "getBoosterEra"
  /\ pure' = [pure EXCEPT !.done = TRUE,
                          !.result = <<getBoosterEra(IsoDate(pure.arg.d1)),
                                       getBoosterEra(IsoDate(pure.arg.d2))>>]
  /\ UNCHANGED <<boosterIndexCache, boosterFileCache, gen, prev, acq, cls, daily, loads>>

\* getAvailableBoosterTypes(setCode, releaseDate) runs
TypesCall ==
  /\ ~pure.done /\ pure.arg.fn = "getAvailableBoosterTypes"
  /\ pure' = [pure EXCEPT !.done = TRUE,
                          !.result = getAvailableBoosterTypes(pure.arg.setCode,
                                                              IsoDate(pure.arg.d1))]
  /\ UNCHANGED <<boosterIndexCache, boosterFileCache, gen, prev, acq, cls, daily, loads>>

\* isInRange(cn, rangeStr) runs
RangeCall ==
  /\ ~pure.done /\ pure.arg.fn = "isInRange"
  /\ pure' = [pure EXCEPT !.done = TRUE,
                          !.result =
                            isInRange((IF pure.arg.hasNum THEN IntStr(pure.arg.num) ELSE <<>>)
                                        \o pure.arg.suffix,
                                      IF pure.arg.dashed
                                      THEN IntStr(pure.arg.a) \o <<"-">> \o IntStr(pure.arg.b)
                                      ELSE IntStr(pure.arg.a))]
  /\ UNCHANGED <<boosterIndexCache, boosterFileCache, gen, prev, acq, cls, daily, loads>>

SpecPure == InitPure /\ [][EraCall \/ TypesCall \/ RangeCall]_vars

(***************************************************************************)
(* Properties of the sealed pool generator                                 *)
(***************************************************************************)

GenReturned == gen.pc = "done" /\ gen.outcome = "returned"

GenCards == Catalogs[gen.cat]

HasEveryRarity(cards) ==
  \A r \in {"common", "uncommon", "rare", "mythic"} :
    \E k \in 1..Len(cards) : cards[k].rarity = r

\* C1: two calls with the same set code, catalog, number of packs and seed
\* return the same card sequence, whatever the booster-index and booster-file
\* loads did in between.  Stated for the seeds on which the seeded generator
\* is in use, so that only the loads can tell the two calls apart.
C1_SameArgumentsSamePool ==
  (GenReturned /\ prev.valid /\ Truthy(gen.seed)) => gen.pool = prev.pool

\* C2: whenever a seed argument is supplied (any number, 0 included, any
\* string, the empty one included) the draws of the call come from the seeded
\* generator and none from the non-deterministic source.
C2_SuppliedSeedIsSeeded ==
  (GenReturned /\ gen.seed # NoSeed) => gen.source = "seeded"

\* the k-th card pushed by pack p of a pool of 14-card packs
PackCard(p, k) == CardOf(GenCards, gen.pool[(14 * p) + k])

\* C3: in the unstructured branch with a card of every rarity in the catalog,
\* each pack is 1 rare-or-mythic, 3 uncommons and 10 commons, in this order,
\* and the 6-pack pool has exactly 84 cards.
C3_LegacyPackIsFourteen ==
  (GenReturned /\ gen.branch = "legacy" /\ HasEveryRarity(GenCards)) =>
    /\ Len(gen.pool) = 84
    /\ \A p \in 0..5 :
         /\ PackCard(p, 1).rarity \in {"rare", "mythic"}
         /\ \A k \in 2..4 : PackCard(p, k).rarity = "uncommon"
         /\ \A k \in 5..14 : PackCard(p, k).rarity = "common"

\* C3 witness: an unseeded call has returned an 84-card pool from the
\* unstructured branch for a catalog with every rarity.
C3_Witness ==
  /\ GenReturned /\ gen.branch = "legacy" /\ HasEveryRarity(GenCards)
  /\ gen.seed = NoSeed /\ Len(gen.pool) = 84

\* C4: a call that falls back to the unstructured branch generates exactly
\* numPacks packs: 14 * numPacks cards when every rarity is present.
C4_FallbackHonoursNumPacks ==
  (GenReturned /\ gen.branch = "legacy" /\ HasEveryRarity(GenCards)) =>
    Len(gen.pool) = 14 * gen.numPacks

\* the config in force for the call: the one fetchSetConfig derives from the
\* booster file the call used, none in the unstructured branch
GenConfig ==
  IF gen.branch = "structured"
  THEN BuildConfig(gen.file, boosterFileCache[<<gen.setCode, "collector">>])
  ELSE Null

\* C5: no card of a returned pool is collector-exclusive under the config in
\* force for the call, in either branch and for every catalog.
C5_NoExclusiveCardInPool ==
  GenReturned =>
    \A k \in 1..Len(gen.pool) : ~isCollectorExclusive(CardOf(GenCards, gen.pool[k]), GenConfig)

(***************************************************************************)
(* Properties of the classifier                                            *)
(***************************************************************************)

\* the number n lies inside one of the ranges whose bounds `list` holds
Inside(n, list) == \E k \in 1..Len(list) : list[k][1] <= n /\ n <= list[k][2]

\* the config's play-booster ranges include the card's collector number
ClsInPlay == cls.config.hasPlay /\ cls.card.hasNum /\ Inside(cls.card.num, cls.config.play)

\* the config's collector-exclusive ranges include the card's collector number
ClsInExcl == cls.config.hasExcl /\ cls.card.hasNum /\ Inside(cls.card.num, cls.config.excl)

\* C6: isCollectorExclusive is false for every card whose collector number
\* lies inside a play-booster range of the config, whatever its promo types
\* and frame effects and whatever the collector-exclusive ranges hold.
C6_PlayRangeWins ==
  (cls.pc = "done" /\ ~cls.config.isNull /\ ClsInPlay) => cls.result = FALSE

\* C6 witness: a card with a premium promo type, inside a play-booster range
\* and inside a collector-exclusive range, has been classified.
C6_Witness ==
  /\ cls.pc = "done" /\ ~cls.config.isNull /\ ClsInPlay /\ ClsInExcl
  /\ cls.card.promos = {"fracturefoil"} /\ cls.result = FALSE

\* C7: for every supplied config and every card its play-booster ranges do
\* not include (also when it declares none), isCollectorExclusive is true if
\* the collector-exclusive ranges include the card's collector number.
C7_ExclusiveRangeDecides ==
  (cls.pc = "done" /\ ~cls.config.isNull /\ ~ClsInPlay /\ ClsInExcl) => cls.result = TRUE

(***************************************************************************)
(* Properties of fetchWithRetry and the pipeline                           *)
(***************************************************************************)

\* the last fetchWithRetry call gave up: it ended without a response body
GaveUp == acq.last.result \in {"threw", "undefined"}

\* C8: a 429 response does not consume a retry slot: a call gives up only
\* after 3 attempts that failed generically, however many 429s it saw.
C8_RateLimitKeepsRetrySlots == GaveUp => acq.last.nGeneric = 3

\* C9: no unbounded retry loop: a call makes at most 3 attempts, a call that
\* saw only generic failures throws after exactly 3 of them, and every
\* pipeline with a call in progress comes to its end.
C9_RetriesAreBounded ==
  /\ [](acq.pc = "fetching" => acq.i < 3)
  /\ [](acq.last.attempts <= 3)
  /\ []((GaveUp /\ acq.last.n429 = 0) =>
          (acq.last.result = "threw" /\ acq.last.attempts = 3 /\ acq.last.nGeneric = 3))
  /\ (acq.pc = "fetching") ~> (acq.pc = "done")

\* C9 witness: a call that saw three generic failures and no 429 has thrown.
C9_Witness ==
  /\ acq.last.result = "threw" /\ acq.last.n429 = 0 /\ acq.last.attempts = 3
  /\ acq.pc = "done" /\ acq.outcome = "threw"

\* C10: when every page fetch succeeds in the end, the cards accumulated are
\* the provider's items, each once and in page order, and they are the result
\* when no filter applies.
C10_PaginationComplete ==
  (acq.pc = "done" /\ acq.outcome = "returned" /\ ~acq.caught404) =>
    /\ acq.cards = Ids(Catalogs[acq.cat])
    /\ acq.boosterType = "collector" => acq.result = Ids(Catalogs[acq.cat])

\* C10 witness: a catalog served in three pages has been read to its end,
\* with a retry on the way, and returned unfiltered.
C10_Witness ==
  /\ acq.pc = "done" /\ acq.outcome = "returned" /\ ~acq.caught404
  /\ acq.boosterType = "collector" /\ acq.url = 3 /\ acq.i > 0
  /\ Len(acq.result) = Len(CatalogMixed)

\* the fetchWithRetry call of the main catalog query threw HTTP 404 and the
\* pipeline has ended without a side-catalog request
NotFound ==
  /\ acq.pc = "done" /\ acq.side = "main" /\ acq.url = 1
  /\ acq.last.result = "threw" /\ acq.last.error = "HTTP 404"

\* C11: when the provider answers the catalog query with HTTP 404,
\* fetchSetCards and fetchAllSetCards return normally with an empty catalog.
C11_NotFoundIsEmpty ==
  NotFound => (acq.outcome = "returned" /\ acq.cards = <<>> /\ acq.result = <<>>)

\* C11 witness: fetchAllSetCards has returned after three 404 answers to its
\* catalog query.
C11_Witness ==
  /\ NotFound /\ acq.fn = "fetchAllSetCards" /\ acq.last.attempts = 3
  /\ acq.outcome = "returned"

\* C12: a pipeline whose last request ended in an unrecoverable failure other
\* than 404, the side-catalog requests included, ends with an error and not
\* with a normal result.
C12_FailurePropagates ==
  (acq.pc = "done" /\ acq.last.result = "threw" /\ acq.last.error # "HTTP 404") =>
    acq.outcome = "threw"

(***************************************************************************)
(* Properties of pickDailySet                                              *)
(***************************************************************************)

\* the sets of the list released on or after 2020-01-01, told by the year
\* their release date starts with
DailyCandidates ==
  SelectSeq(daily.sets, LAMBDA st :
    "released" \in DOMAIN st /\ Len(st.released) = 10 /\ SubSeq(st.released, 1, 3) = <<"2", "0", "2">>)

\* the absolute value of the 32-bit rolling hash of the day strings
DayHash ==
  CASE daily.date = <<"2", "0", "2", "4", "-", "0", "1", "-", "1", "5">> -> 613341597
    [] daily.date = <<"2", "0", "2", "4", "-", "0", "1", "-", "1", "6">> -> 613341596
    [] daily.date = <<"2", "0", "2", "4", "-", "0", "2", "-", "2", "9">> -> 613311771
    [] daily.date = <<"2", "0", "2", "5", "-", "0", "6", "-", "3", "0">> -> 274311096

\* C13: pickDailySet raises, and returns no value, when no set of the list
\* was released on or after the cutoff, the empty list included.
C13_NoCandidateRaises ==
  (daily.calls > 0 /\ Len(DailyCandidates) = 0) => daily.outcome = "threw"

\* C14: with a candidate in the list, pickDailySet returns the candidate at
\* index (absolute rolling hash of the day string) mod candidateCount, a
\* member of the candidates, and a second call returns the same element.
C14_DailyPickInRange ==
  (daily.calls > 0 /\ Len(DailyCandidates) > 0) =>
    /\ daily.result = DailyCandidates[(DayHash % Len(DailyCandidates)) + 1]
    /\ \E k \in 1..Len(DailyCandidates) : daily.result = DailyCandidates[k]
    /\ daily.calls = 2 => daily.result = daily.before

\* C14 witness: two calls have run on a list of three sets, two of them
\* candidates, and picked the second candidate.
C14_Witness ==
  /\ daily.calls = 2 /\ Len(daily.sets) = 3 /\ Len(DailyCandidates) = 2
  /\ daily.result = DailyCandidates[2] /\ daily.result # DailyCandidates[1]
  /\ daily.result # daily.sets[2]

(***************************************************************************)
(* Properties of the two caches                                            *)
(***************************************************************************)

\* the slot has never been assigned: null for the index, undefined for a file
Unset(slot) == SlotValue(slot) = (IF slot = <<"index">> THEN Null ELSE Undefined)

\* C15: a slot is populated at most once: a call made after a load of its
\* slot has completed, with success or with failure, issues no fetch.
C15_PopulatedOnce ==
  [][\A p \in Loaders :
       (loads[p].pc # "fetching" /\ loads'[p].pc = "fetching") => Unset(loads'[p].slot)]_vars

\* the values a slot may hold: unset, a parsed document, the failure value
SlotsWhole ==
  /\ boosterIndexCache \in {Null, FallbackIndex} \cup IndexDocs
  /\ \A k \in FileKeys : boosterFileCache[k] \in {Undefined, Null} \cup FileDocs(k)

\* C16: under every interleaving of concurrent loads a slot holds no partly
\* written entry: it is unset, a parsed document or the failure value, and it
\* is assigned only by the step in which a caller's fetch has completed, with
\* the value that caller returns.
C16_NoPartialEntry ==
  /\ []SlotsWhole
  /\ [][\A slot \in {<<"index">>} \cup FileKeys :
          SlotValue(slot)' # SlotValue(slot) =>
            \E p \in Loaders :
              /\ loads[p].pc = "fetching" /\ loads[p].slot = slot
              /\ loads'[p].pc = "done" /\ loads'[p].got = SlotValue(slot)']_vars

\* C16 witness: two loads of the booster index overlapped; one has completed
\* and assigned the slot while the other is still pending.
C16_Witness ==
  /\ loads[1].pc = "fetching" /\ loads[1].slot = <<"index">>
  /\ loads[2].pc = "done" /\ loads[2].slot = <<"index">>
  /\ boosterIndexCache = GoodIndex /\ loads[2].got = GoodIndex

\* the slot holds a document that was loaded successfully
Populated(slot) ==
  SlotValue(slot) \in (IF slot = <<"index">> THEN IndexDocs ELSE FileDocs(slot))

\* C17: writes are idempotent: once a slot holds a successfully loaded
\* document, no later completion of an overlapping load changes it.
C17_WritesIdempotent ==
  [][\A slot \in {<<"index">>} \cup FileKeys :
       Populated(slot) => SlotValue(slot)' = SlotValue(slot)]_vars

\* the index load failed: the slot holds the value the catch assigns
IndexFailed == boosterIndexCache = FallbackIndex

\* the ids among `ids` that the generic rule does not find exclusive
GenericKept(ids) ==
  SelectSeq(ids, LAMBDA id :
    LET card == CardOf(Catalogs[acq.cat], id)
    IN  /\ card.promo_types \cap {"fracturefoil", "texturedfoil", "ripplefoil", "halofoil",
                                  "confettifoil", "galaxyfoil", "surgefoil", "raisedfoil",
                                  "headliner"} = {}
        /\ card.frame_effects \cap {"inverted", "extendedart"} = {})

\* C18: a failed booster-index load never raises: the index is then empty,
\* fetchSetConfig returns null, fetchAllSetCards filters with the generic
\* rule and raises only what a catalog request raised, and the generator
\* returns from the unstructured branch without loading a booster file.
C18_IndexFailureDegrades ==
  IndexFailed =>
    /\ "boosters" \in DOMAIN boosterIndexCache /\ DOMAIN boosterIndexCache.boosters = {}
    /\ gen.pc # "fileFetch"
    /\ gen.pc = "done" => (gen.outcome = "returned" /\ gen.branch = "legacy")
    /\ (acq.fn = "fetchAllSetCards" /\ acq.pc \in {"fetching", "done"}) =>
         /\ acq.config = Null
         /\ acq.outcome = "threw" => acq.last.result # "none"
         /\ (acq.outcome = "returned" /\ acq.boosterType # "collector") =>
              acq.result = GenericKept(acq.cards)

\* C18 witness: after a failed index load fetchAllSetCards has returned a
\* play-booster catalog from which the generic rule removed cards.
C18_Witness ==
  /\ IndexFailed /\ acq.fn = "fetchAllSetCards" /\ acq.setCode = "mkm"
  /\ acq.pc = "done" /\ acq.outcome = "returned" /\ acq.boosterType = "play"
  /\ Len(acq.cards) = Len(CatalogMixed) /\ Len(acq.result) < Len(acq.cards)

\* C19: a dataset document that loads but lacks a field never makes the
\* generator or the pipeline raise: a generator call that ends has returned,
\* and a pipeline that raised has raised what a catalog request raised.
C19_MalformedDegrades ==
  /\ gen.pc = "done" => gen.outcome = "returned"
  /\ (acq.pc = "done" /\ acq.outcome = "threw") => acq.last.result # "none"

(***************************************************************************)
(* Frame of the sealed pool generator                                      *)
(***************************************************************************)

\* C20: with its catalog in hand the generator does no I/O: a call has no
\* fetch pending, so it is never suspended, and no step of it changes the
\* booster-index or the booster-file cache.
C20_GeneratorNoIO ==
  /\ [](gen.pc \notin {"indexFetch", "fileFetch"})
  /\ [][gen' # gen =>
          (boosterIndexCache' = boosterIndexCache /\ boosterFileCache' = boosterFileCache)]_vars

(***************************************************************************)
(* Sparse catalogs                                                         *)
(***************************************************************************)

\* the number of cards of the catalog of the call with the given rarity
GenCount(rarity) == Cardinality({k \in 1..Len(GenCards) : GenCards[k].rarity = rarity})

\* 1 when n > 0, else 0
Some(n) == IF n > 0 THEN 1 ELSE 0

\* the sum of the counts of the slots that declare a count and a pool
RECURSIVE CountSum(_, _)
CountSum(slots, k) ==
  IF k > Len(slots) THEN 0
  ELSE (IF "pool" \in DOMAIN slots[k] /\ "count" \in DOMAIN slots[k]
        THEN slots[k].count ELSE 0) + CountSum(slots, k + 1)

\* C21: the generator never raises for data sparsity: for every catalog, the
\* empty one included, a call that raised did so on the booster index and
\* not on the catalog; a pool holds cards of the catalog only (no
\* placeholder for a skipped draw) and is only shorter: the unstructured
\* pool loses exactly the draws of its empty buckets, the structured pool
\* has at most numPacks times the slot counts, and the empty catalog gives
\* the empty pool.
C21_SparsityNeverRaises ==
  gen.pc = "done" =>
    /\ gen.outcome = "threw" => "boosters" \notin DOMAIN boosterIndexCache
    /\ gen.outcome = "returned" =>
         /\ \A k \in 1..Len(gen.pool) :
              \E j \in 1..Len(GenCards) : GenCards[j].id = gen.pool[k]
         /\ Len(GenCards) = 0 => gen.pool = <<>>
         /\ gen.branch = "legacy" =>
              /\ Len(gen.pool) >= 6 * ((3 * Some(GenCount("uncommon")))
                                        + (10 * Some(GenCount("common")))
                                        + Some(GenCount("rare")))
              /\ Len(gen.pool) <= 6 * ((3 * Some(GenCount("uncommon")))
                                        + (10 * Some(GenCount("common")))
                                        + Some(GenCount("rare") + GenCount("mythic")))
         /\ gen.branch = "structured" =>
              Len(gen.pool) <= gen.numPacks * CountSum(gen.file.slots, 1)

\* C21 witness: the structured branch has returned a pool for the catalog
\* without uncommons and mythics: two packs, shorter than two full packs.
C21_Witness ==
  /\ GenReturned /\ gen.branch = "structured" /\ GenCards = CatalogSparse
  /\ gen.numPacks = 2 /\ Len(gen.pool) > 0
  /\ Len(gen.pool) < 2 * CountSum(gen.file.slots, 1)

(***************************************************************************)
(* Properties of the booster type detection and of the range matcher       *)
(***************************************************************************)

\* C22: getAvailableBoosterTypes(setCode, releaseDate) is the reference rule:
\* [jumpstart] for a themed-half-deck set whatever the date; otherwise
\* [play, collector] from 2024-02-09 on, [draft, collector] from 2019-10-04
\* on, and [draft] before.
C22_BoosterTypesByRule ==
  (pure.done /\ pure.arg.fn = "getAvailableBoosterTypes") =>
    pure.result =
      (IF pure.arg.setCode \in {"jmp", "j22", "j25"} THEN <<"jumpstart">>
       ELSE IF pure.arg.d1 >= 20240209 THEN <<"play", "collector">>
       ELSE IF pure.arg.d1 >= 20191004 THEN <<"draft", "collector">>
       ELSE <<"draft">>)

\* C22 witness: a set that is not a themed-half-deck set, released on the day
\* of the play-booster threshold, has been given [play, collector].
C22_Witness ==
  /\ pure.done /\ pure.arg.fn = "getAvailableBoosterTypes"
  /\ pure.arg.setCode = "mkm" /\ pure.arg.d1 = 20240209
  /\ pure.result = <<"play", "collector">>

\* the place of an era in the order draft < collector-era < set < play
EraRank(era) ==
  CASE era = "draft" -> 0 [] era = "collector-era" -> 1 [] era = "set" -> 2
    [] era = "play" -> 3

\* C23: era(d) is monotonic non-decreasing in the order draft <
\* collector-era < set < play: d1 <= d2 gives era(d1) <= era(d2), and each
\* threshold date itself belongs to the later era.
C23_EraMonotonic ==
  (pure.done /\ pure.arg.fn = "getBoosterEra") =>
    /\ pure.arg.d1 <= pure.arg.d2 => EraRank(pure.result[1]) <= EraRank(pure.result[2])
    /\ pure.arg.d1 = 20191004 => pure.result[1] = "collector-era"
    /\ pure.arg.d1 = 20200925 => pure.result[1] = "set"
    /\ pure.arg.d1 = 20240209 => pure.result[1] = "play"

\* C23 witness: the eras of the day before the set-booster threshold and of
\* the threshold day have been computed, and they differ.
C23_Witness ==
  /\ pure.done /\ pure.arg.fn = "getBoosterEra"
  /\ pure.arg.d1 = 20200924 /\ pure.arg.d2 = 20200925
  /\ pure.result = <<"collector-era", "set">>

\* the range test on the numbers: a <= n <= b for "a-b", n = a for "a", and
\* false for a collector number without a leading integer
RangeExpected ==
  /\ pure.arg.hasNum
  /\ IF pure.arg.dashed
     THEN pure.arg.a <= pure.arg.num /\ pure.arg.num <= pure.arg.b
     ELSE pure.arg.num = pure.arg.a

\* C24 as stated: for all integers n, a, b, isInRange(n, "a-b") is true
\* exactly when a <= n <= b, isInRange(n, "a") exactly when n = a, and it is
\* false for every collector number without a leading integer.
C24_RangeInclusiveAllIntegers ==
  (pure.done /\ pure.arg.fn = "isInRange") => pure.result = RangeExpected

\* C24 amended: the same for all integers n and b and every lower bound or
\* single value a >= 0 (a range string cannot write a negative a: its "-" is
\* read as the separator).
C24_RangeInclusive ==
  (pure.done /\ pure.arg.fn = "isInRange" /\ pure.arg.a >= 0) =>
    pure.result = RangeExpected

\* C24 witness: a collector number with a letter suffix, equal to the upper
\* bound of a dashed range, has been found inside it.
C24_Witness ==
  /\ pure.done /\ pure.arg.fn = "isInRange" /\ pure.arg.dashed
  /\ pure.arg.num = 10 /\ pure.arg.suffix = <<"a">>
  /\ pure.arg.a = 1 /\ pure.arg.b = 10 /\ pure.result = TRUE

(***************************************************************************)
(* Properties of the side catalogs and of the pipeline's failures          *)
(***************************************************************************)

\* C25: when includeSpecialGuests is requested, fetchSetCards fetches and
\* appends a side catalog for every set with a Special Guests range or a
\* bonus sheet: the Special Guests cards of the set's range, and for a set
\* with a bonus sheet the cards of its mapped bonus set code, also when the
\* set has no Special Guests range.
C25_SideCatalogsFetched ==
  (acq.pc = "done" /\ acq.outcome = "returned" /\ acq.fn = "fetchSetCards"
     /\ acq.includeSpecialGuests) =>
    /\ acq.setCode \in {"lci", "mkm", "otj", "mh3", "blb", "dsk", "fdn", "dft", "tdm",
                         "eoe", "fin"} => Includes(acq.asked, "spg")
    /\ acq.setCode \in DOMAIN BONUS_SHEET_SETS =>
         Includes(acq.asked, BONUS_SHEET_SETS[acq.setCode])

(***************************************************************************)
(* Properties of the structured branch                                     *)
(***************************************************************************)

GenStructured == GenReturned /\ gen.branch = "structured"

\* the card is one the slot may yield: of a rarity the slot declares, or, for
\* a slot without rarities, a card numbered inside the slot's ranges (in the
\* catalogs the cards 1 to 8 carry their id as number and the card 9 carries
\* 20; the slot without rarities has the ranges 1-8 and 20)
Fits(card, slot) ==
  IF "rarities" \in DOMAIN slot
  THEN \E j \in 1..Len(slot.rarities) : slot.rarities[j] = card.rarity
  ELSE card.id \in 1..9

\* C26: the structured pool is built in pack-then-slot-then-item order: a
\* slot with a count and a pool yields at most count consecutive cards, and
\* exactly count when its bucket is non-empty; a slot lacking either yields
\* none.  With every bucket non-empty the pool has numPacks times the sum of
\* the counts, and the cards of pack p, slot k stand, count of them, after
\* those of the slots declared before k; with the uncommon bucket empty only
\* the uncommon slot yields nothing.
C26_PackSlotItemOrder ==
  GenStructured =>
    /\ Len(gen.pool) <= gen.numPacks * CountSum(gen.file.slots, 1)
    /\ HasEveryRarity(GenCards) =>
         /\ Len(gen.pool) = gen.numPacks * CountSum(gen.file.slots, 1)
         /\ \A p \in 0..(gen.numPacks - 1), k \in 1..Len(gen.file.slots) :
              ("pool" \in DOMAIN gen.file.slots[k] /\ "count" \in DOMAIN gen.file.slots[k]) =>
                \A i \in 1..gen.file.slots[k].count :
                  Fits(CardOf(GenCards,
                              gen.pool[(p * CountSum(gen.file.slots, 1))
                                       + CountSum(SubSeq(gen.file.slots, 1, k - 1), 1) + i]),
                       gen.file.slots[k])
    /\ (GenCards = CatalogSparse /\ gen.file = PlayFile) =>
         /\ Len(gen.pool) = gen.numPacks * (1 + 3 + 1)
         /\ \A k \in 1..Len(gen.pool) : CardOf(GenCards, gen.pool[k]).rarity # "uncommon"

\* C26 witness: two packs of the seven-card play file have been drawn from a
\* catalog with every rarity, and the two packs differ.
C26_Witness ==
  /\ GenStructured /\ HasEveryRarity(GenCards) /\ gen.file = PlayFile
  /\ gen.numPacks = 2 /\ Len(gen.pool) = 14
  /\ SubSeq(gen.pool, 1, 7) # SubSeq(gen.pool, 8, 14)

\* the slot's mythic rate times 2^16, 0.125 when it does not specify one; the
\* rates of the play files are whole multiples of 2^-16, so that a draw r is
\* below the rate exactly when floor(r * 2^16) is below this number
RateTimes16(slot) ==
  IF "mythicRate" \in DOMAIN slot THEN slot.mythicRate[1] ELSE 8192

\* floor(r * 2^16) for the first value r the random source of the call returned
FirstDraw == RandOut(RandStep(gen.random))[1]

\* the number of cards of the rarity numbered 1 to 5, the numbers the ranges
\* of the rare/mythic slots cover (the catalog cards carry their id as number)
RareMythicBucket(rarity) ==
  Cardinality({k \in 1..Len(GenCards) : GenCards[k].rarity = rarity /\ GenCards[k].id <= 3})

\* the slot declares both rare and mythic, a count and a pool
RareMythicSlot(slot) ==
  /\ "pool" \in DOMAIN slot /\ "count" \in DOMAIN slot /\ "rarities" \in DOMAIN slot
  /\ \E j \in 1..Len(slot.rarities) : slot.rarities[j] = "rare"
  /\ \E j \in 1..Len(slot.rarities) : slot.rarities[j] = "mythic"

\* C27: a slot whose rarities hold both rare and mythic yields a mythic card
\* exactly when the mythic bucket is non-empty and a fresh random draw is
\* below its mythicRate, 0.125 when it specifies none; otherwise it draws
\* from the rare bucket, and never a card of another rarity it declares.
\* Stated on the first draw of a call, which is the draw of the first slot
\* (one rare/mythic card in both play files; with the rare bucket empty and
\* no mythic drawn the slot yields nothing, and the first card of a one-pack
\* pool comes from a slot that yields neither rarity), and, with every
\* bucket non-empty, on every card of every rare/mythic slot of every pack.
C27_MythicByRate ==
  (GenStructured /\ gen.numPacks > 0 /\ RareMythicSlot(gen.file.slots[1])
     /\ gen.file.slots[1].count = 1) =>
    /\ IF RareMythicBucket("mythic") > 0 /\ FirstDraw < RateTimes16(gen.file.slots[1])
       THEN Len(gen.pool) > 0 /\ CardOf(GenCards, gen.pool[1]).rarity = "mythic"
       ELSE IF RareMythicBucket("rare") > 0
       THEN Len(gen.pool) > 0 /\ CardOf(GenCards, gen.pool[1]).rarity = "rare"
       ELSE (gen.numPacks = 1 /\ Len(gen.pool) > 0) =>
              CardOf(GenCards, gen.pool[1]).rarity \notin {"rare", "mythic"}
    /\ HasEveryRarity(GenCards) =>
         \A p \in 0..(gen.numPacks - 1), k \in 1..Len(gen.file.slots) :
           RareMythicSlot(gen.file.slots[k]) =>
             \A i \in 1..gen.file.slots[k].count :
               LET card == CardOf(GenCards,
                                  gen.pool[(p * CountSum(gen.file.slots, 1))
                                           + CountSum(SubSeq(gen.file.slots, 1, k - 1), 1) + i])
               IN  /\ card.rarity \in {"rare", "mythic"}
                   /\ RateTimes16(gen.file.slots[k]) = 0 => card.rarity = "rare"

\* C27 witness: a slot with mythicRate 0.5 has yielded a mythic card on a
\* first draw of 0.268, above the default rate and below its own.
C27_Witness ==
  /\ GenStructured /\ gen.file = PlayFileRated /\ gen.numPacks > 0
  /\ gen.seed = [t |-> "str", v |-> <<"s">>]
  /\ FirstDraw >= 8192 /\ FirstDraw < 32768
  /\ CardOf(GenCards, gen.pool[1]).rarity = "mythic"

\* C28: a fetchWithRetry call whose attempts were all answered 429 ends
\* without throwing and returns undefined (a call that returns undefined has
\* made all its attempts and got a 429); the pipeline that asked for a page of the main catalog then fails with the
\* TypeError of reading the missing result.
C28_AllRateLimitedIsUndefined ==
  /\ acq.last.n429 = 3 => (acq.last.result = "undefined" /\ acq.last.attempts = 3)
  /\ acq.last.result = "undefined" => (acq.last.n429 > 0 /\ acq.last.attempts = 3)
  /\ (acq.last.result = "undefined" /\ acq.side = "main") =>
       /\ acq.pc = "done" /\ acq.outcome = "threw"
       /\ acq.error = "Cannot read properties of undefined"

\* C28 witness: the request of the second page was answered 429 three times
\* and fetchAllSetCards has failed.
C28_Witness ==
  /\ acq.fn = "fetchAllSetCards" /\ acq.pc = "done" /\ acq.outcome = "threw"
  /\ acq.url = 2 /\ acq.last.result = "undefined" /\ acq.last.n429 = 3

\* C29: when the request of a later page ends in HTTP 404, fetchSetCards and
\* fetchAllSetCards return normally the cards of exactly the pages read
\* before it, filtered: a partial catalog.
C29_LaterNotFoundKeepsPages ==
  (acq.pc = "done" /\ acq.caught404 /\ acq.url > 1) =>
    /\ acq.outcome = "returned"
    /\ acq.cards = SubSeq(Ids(Catalogs[acq.cat]), 1, (acq.url - 1) * PageSize)
    /\ Len(acq.cards) < Len(Catalogs[acq.cat])
    /\ acq.boosterType = "collector" => acq.result = acq.cards
    /\ (acq.boosterType # "collector" /\ acq.config = Null) =>
         acq.result = GenericKept(acq.cards)

\* C29 witness: fetchAllSetCards has returned the first two pages of a
\* three-page catalog after a 404 on the third.
C29_Witness ==
  /\ acq.fn = "fetchAllSetCards" /\ acq.pc = "done" /\ acq.outcome = "returned"
  /\ acq.caught404 /\ acq.url = 3 /\ acq.boosterType = "collector"
  /\ Len(acq.result) = 2 * PageSize /\ Len(Catalogs[acq.cat]) > 2 * PageSize

\* C30: every element of a generated pool is a card of the input catalog, in
\* both branches: a pick index floor(r * bucketLength) lies in
\* 0..bucketLength-1, so no entry is undefined or foreign; and in the
\* structured branch every pooled card is numbered inside the ranges of a
\* slot of the booster file (1-8 and 20 for the play file, 1-8 for the file
\* with rates; the catalog cards 1 to 8 carry their id as number, 9 carries
\* 20, 10 carries 30 and 11 carries no number).
C30_PoolWithinCatalog ==
  GenReturned =>
    /\ \A n \in 1..Len(GenCards) :
         FloorMul(RandOut(RandStep(gen.random)), n) \in 0..(n - 1)
    /\ \A k \in 1..Len(gen.pool) :
         /\ gen.pool[k] \in {GenCards[j].id : j \in 1..Len(GenCards)}
         /\ gen.branch = "structured" =>
              gen.pool[k] \in (IF gen.file = PlayFile THEN 1..9 ELSE 1..8)

\* C30 witness: the structured branch has pooled the card numbered 20, which
\* only the second finish of the slot without rarities covers, from the
\* catalog that also holds cards outside every range.
C30_Witness ==
  /\ GenStructured /\ GenCards = CatalogMixed /\ gen.file = PlayFile
  /\ \E k \in 1..Len(gen.pool) : gen.pool[k] = 9

====
